---- MODULE Spec2Model ----
(***************************************************************************)
(* Model of the Alliance backend (brataccas99/Alliance).                   *)
(*                                                                         *)
(*  SpecStore : BlobJsonStore on the remote (GCS) backend, with two        *)
(*              concurrent read-modify-write cycles on one document        *)
(*              (SubscriberService._update_file_atomic or                  *)
(*              NotificationService._record_sent_json) and the             *)
(*              unconditional save of SubscriberService._ensure_storage.   *)
(*  SpecFetch : AnnouncementService.fetch_and_save, the reconciliation of  *)
(*              a scraped batch with the stored snapshot.                  *)
(*  SpecSubs  : SubscriberService.subscribe / unsubscribe, one call after  *)
(*              the other.                                                 *)
(*  SpecNotify: NotificationService.notify, one call after the other, for  *)
(*              two active subscribers.                                    *)
(*  SpecRun   : fetch_and_save runs that notify the two subscribers.       *)
(***************************************************************************)
EXTENDS Naturals, Integers, Sequences, FiniteSets, TLC

VARIABLES
    \* ---- document store (blob_json_store.py) and its writers
    kind,          \* which document / helper: "subscribers" or "sent"
    blob,          \* the remote object: [data, generation]; generation 0 = absent
    upd,           \* per writer: the element its updater adds to the document
    pc,            \* per writer: position in the read-modify-write cycle
    attempt,       \* per writer: loop variable of the caller's retry loop
    loaded,        \* per writer: JsonLoadResult of load_with_generation
    sv_attempt,    \* per writer: loop variable of save_with_generation
    sv_generation, \* per writer: local variable generation of save_with_generation
    outcome,       \* per writer: "none", "returned" or "raised"
    stale_call,    \* per writer: the generation passed to save differed from the
                   \* object's when the save's first upload reached the backend
    uploads,       \* per writer: number of conditional uploads issued
    rejected,      \* per writer: number of them the backend rejected
    applied,       \* per writer: one of its uploads was applied to the object
    ensured,       \* number of _ensure_storage saves so far
    \* ---- announcements (announcement_service.py, json_storage.py)
    store,         \* data/announcements.json: the saved list of announcements
    now,           \* datetime.utcnow() of the latest run, in days
    runs,          \* number of fetch_and_save runs so far
    existing,      \* what the latest run loaded from the store
    scraped,       \* scraped_items of the latest run
    newly_seen,    \* newly_seen of the latest run
    same_batch,    \* the latest run scraped the same batch as the one before it
    ever_assigned, \* every <<id, key>> a saved snapshot has held
    \* ---- subscribers (subscriber_service.py)
    subs_doc,      \* data/subscribers.json: the list under "subscribers"
    sub_call,      \* the latest subscribe / unsubscribe call and its outcome
    sub_calls,     \* number of subscribe / unsubscribe calls so far
    \* ---- notifications (notification_service.py, email_service.py)
    sent_docs,     \* per email: sent_keys of its notifications document
    outbox,        \* every message handed to smtp.send_message, in order
    email_enabled, \* EmailService.enabled (EMAIL_NOTIFICATIONS_ENABLED)
    dedupe_backend,\* "json": self._collection is None; "mongo": it is not
    store_faulted, \* a read or a write of a sent-set has failed so far
    notify_call,   \* the latest notify call and its outcome
    calls,         \* number of direct notify calls so far
    \* ---- scraping of one page (announcement_service.py)
    detail,        \* one _scrape_detail call: what the page holds, the date found
    get,           \* one page fetch: _get with its retries and the fallback
    bstore,        \* a BlobJsonStore with GCS_BUCKET set: the object, the local
                   \* file and the latest load() or save() call
    fail_run,      \* the latest fetch_and_save call of a history with failing
                   \* sources: its environment and how it ended
    runner,        \* per thread that calls fetch_and_save: where the call is,
                   \* what it scraped and what it loaded
    attach,        \* one _extract_attachments call: the anchors of the page,
                   \* the place of the loop, the list built so far
    prog,          \* one service instance: its _progress and where its
                   \* fetch_and_save call is
    notifier       \* a fetch_and_save call between list_active() and notify():
                   \* the subscribers it read and whom it mailed

storeVars == <<kind, blob, upd, pc, attempt, loaded, sv_attempt, sv_generation,
               outcome, stale_call, uploads, rejected, applied, ensured>>
fetchVars == <<store, now, runs, existing, scraped, newly_seen, same_batch,
               ever_assigned>>
subsVars == <<subs_doc, sub_call, sub_calls>>
notifyVars == <<sent_docs, outbox, email_enabled, dedupe_backend, store_faulted,
                notify_call, calls>>
lateVars == <<attach, prog>>
auxVars == <<detail, get, bstore, fail_run, runner, notifier, lateVars>>
vars == <<storeVars, fetchVars, subsVars, notifyVars, auxVars>>

(***************************************************************************)
(* Bounds of the model.                                                    *)
(***************************************************************************)
MaxEnsure == 5
MaxRuns == 3
\* subscribe / unsubscribe calls of a behaviour
MaxSubCalls == 3
\* direct notify calls of a behaviour
MaxCalls == 2
\* fetch_and_save runs of a behaviour with subscribers
MaxNotifyRuns == 2

(***************************************************************************)
(* Part 1: the document store and its read-modify-write callers.           *)
(***************************************************************************)
Writers == {"w1", "w2"}
Elems == {"k1", "k2"}

\* retries: int = 5 of save_with_generation
SaveRetries == 5
\* retries: int = 8 of _update_file_atomic, range(8) of _record_sent_json
CycleRetries == 8

\* dict(default): {"subscribers": []} or {"sent_keys": []}, as the set of entries
DefaultDoc == {}

\* updater(data) of subscribe (appends the record of an email not yet there)
\* and sent_keys.update(keys) of _record_sent_json
Updater(data, w) == data \cup {upd[w]}

\* if_generation_match of upload_from_string: the backend applies the upload
\* only when the object's generation is the one given (0: the object is absent)
GenerationMatches(g) == blob.generation = g

\* a successful upload replaces the content and gives a new generation
Uploaded(data) == [data |-> data, generation |-> blob.generation + 1]

InitStoreVars ==
    /\ kind \in {"subscribers", "sent"}
    /\ blob = [data |-> DefaultDoc, generation |-> 0]
    /\ upd \in [Writers -> Elems]
    /\ pc = [w \in Writers |-> "idle"]
    /\ attempt = [w \in Writers |-> 0]
    /\ loaded = [w \in Writers |-> [data |-> DefaultDoc, generation |-> 0]]
    /\ sv_attempt = [w \in Writers |-> 0]
    /\ sv_generation = [w \in Writers |-> 0]
    /\ outcome = [w \in Writers |-> "none"]
    /\ stale_call = [w \in Writers |-> FALSE]
    /\ uploads = [w \in Writers |-> 0]
    /\ rejected = [w \in Writers |-> 0]
    /\ applied = [w \in Writers |-> FALSE]
    /\ ensured = 0

InitFetchVars ==
    /\ store = <<>>
    /\ now = 0
    /\ runs = 0
    /\ existing = <<>>
    /\ scraped = <<>>
    /\ newly_seen = <<>>
    /\ same_batch = FALSE
    /\ ever_assigned = {}

\* no page is being scraped
NoDetail == [pc |-> "none", published_time |-> <<>>, date_published |-> <<>>,
             time_datetime |-> <<>>, pdf_dates |-> {}, text_date |-> <<>>,
             published |-> 0]

\* no request made
NoRequest == [idx |-> 0, retry_count |-> 0, resp |-> "none", slept |-> 0,
              paced |-> FALSE]

\* no page is being fetched
NoGet == [pc |-> "none", kind |-> "listing", retry_count |-> 0, idx |-> 1,
          errors |-> {}, prev |-> NoRequest, last |-> NoRequest,
          backoff_time |-> 0, fallback |-> "none",
          paced |-> FALSE, request_count |-> 0, requests |-> 0]

\* no load() or save() call made
NoBlobOp == [name |-> "none", client |-> TRUE, remote_fault |-> FALSE,
             errs |-> 0, local_fault |-> FALSE, arg |-> "default",
             data |-> "default", generation |-> 0, outcome |-> "none"]

\* neither the object nor the local file exists
NoBlobStore == [remote |-> [exists |-> FALSE, data |-> "default", generation |-> 0],
                local |-> [exists |-> FALSE, data |-> "default"],
                op |-> NoBlobOp, ops |-> 0]

\* what the pages of one source do in a run: the listing is fetched and
\* parsed ("ok"), comes back empty, or raises; each detail URL is scraped
\* or raises
OkPages == [listing |-> "ok", detail |-> [l \in {"l1", "l2"} |-> "ok"]]

\* no fetch_and_save call made
NoFailRun == [ran |-> FALSE, config |-> <<>>, web |-> [s \in {"s1", "s2"} |-> OkPages],
              write |-> "none", raised |-> FALSE, count |-> 0,
              memory_cache |-> <<>>]

\* the threads of the server process that call fetch_and_save: a request
\* thread serving POST /api/fetch and the thread of the BackgroundScheduler
Runners == {"api", "scheduler"}

\* no fetch_and_save call in progress
IdleRunner == [pc |-> "idle", scraped_items |-> <<>>, existing |-> <<>>]

\* no run has reached list_active()
NoNotifier == [pc |-> "idle", done |-> FALSE, subscribers |-> <<>>, items |-> <<>>,
               mailed |-> {}, active_at_list |-> {}, active_at_send |-> {}]

\* no _extract_attachments call
NoAttach == [pc |-> "none", page |-> <<>>, pos |-> 0, attachments |-> <<>>,
             seen_urls |-> {}]

\* self._progress after __init__, no fetch_and_save call in progress
NoProg == [pc |-> "none", schools |-> <<>>, idx |-> 0, scraped_items |-> <<>>,
           status |-> "idle", total |-> 0, current |-> 0]

InitLateVars ==
    /\ attach = NoAttach
    /\ prog = NoProg

InitAuxVars ==
    /\ detail = NoDetail
    /\ get = NoGet
    /\ bstore = NoBlobStore
    /\ fail_run = NoFailRun
    /\ runner = [t \in Runners |-> IdleRunner]
    /\ notifier = NoNotifier
    /\ InitLateVars

\* the normalised emails of the model
Emails == {"a@x.io", "b@x.io"}

\* Optional[List[str]]: None, or a list
NoneIds == [none |-> TRUE, ids |-> <<>>]
ListIds(ids) == [none |-> FALSE, ids |-> ids]

\* no subscribe / unsubscribe call yet
NoSubCall == [op |-> "none", email |-> "", school_ids |-> NoneIds,
              raised |-> FALSE, before |-> <<>>, cycle |-> FALSE]

\* data/subscribers.json after _ensure_storage: {"subscribers": []}
InitSubsVars ==
    /\ subs_doc = <<>>
    /\ sub_call = NoSubCall
    /\ sub_calls = 0

\* no notify call yet
NoNotifyCall == [items |-> <<>>, mails |-> <<>>, sent |-> 0, processed |-> <<>>,
                 raised |-> FALSE, fault_hit |-> FALSE, stopped |-> FALSE,
                 prev_items |-> <<>>, prev_clean |-> FALSE,
                 before |-> [e \in Emails |-> {}], send_failed |-> <<>>]

\* no notifications document yet (load gives {"sent_keys": []}), nothing sent,
\* EMAIL_NOTIFICATIONS_ENABLED at its default "false", no Mongo collection
InitNotifyVars ==
    /\ sent_docs = [e \in Emails |-> {}]
    /\ outbox = <<>>
    /\ email_enabled = FALSE
    /\ dedupe_backend = "json"
    /\ store_faulted = FALSE
    /\ notify_call = NoNotifyCall
    /\ calls = 0

\* the caller mutates the loaded copy and calls save_with_generation(data,
\* generation=generation); _record_sent_json returns early when the keys are
\* all in the document already
Mutate(w, data, generation) ==
    IF kind = "sent" /\ Updater(data, w) = data
    THEN /\ pc' = [pc EXCEPT ![w] = "done"]
         /\ outcome' = [outcome EXCEPT ![w] = "returned"]
         /\ loaded' = [loaded EXCEPT ![w] = [data |-> data, generation |-> generation]]
         /\ UNCHANGED <<sv_attempt, sv_generation>>
    ELSE /\ pc' = [pc EXCEPT ![w] = "upload"]
         /\ loaded' = [loaded EXCEPT ![w] =
                          [data |-> Updater(data, w), generation |-> generation]]
         /\ sv_attempt' = [sv_attempt EXCEPT ![w] = 0]
         /\ sv_generation' = [sv_generation EXCEPT ![w] = generation]
         /\ UNCHANGED outcome

\* for attempt in range(retries): the cycle starts with load_with_generation
StartCycle(w) ==
    /\ pc[w] = "idle"
    /\ attempt[w] < CycleRetries
    /\ pc' = [pc EXCEPT ![w] = "download"]
    /\ UNCHANGED <<kind, blob, upd, attempt, loaded, sv_attempt, sv_generation,
                   outcome, stale_call, uploads, rejected, applied, ensured>>
    /\ UNCHANGED <<auxVars, fetchVars, subsVars, notifyVars>>

\* load_with_generation: blob.exists() and download_as_text(); an absent
\* object gives dict(default) with generation 0 at once
LoadDownload(w) ==
    /\ pc[w] = "download"
    /\ IF blob.generation = 0
       THEN Mutate(w, DefaultDoc, 0)
       ELSE /\ pc' = [pc EXCEPT ![w] = "reload"]
            /\ loaded' = [loaded EXCEPT ![w] = [data |-> blob.data, generation |-> 0]]
            /\ UNCHANGED <<sv_attempt, sv_generation, outcome>>
    /\ UNCHANGED <<kind, blob, upd, attempt, stale_call, uploads, rejected, applied,
                   ensured>>
    /\ UNCHANGED <<auxVars, fetchVars, subsVars, notifyVars>>

\* load_with_generation: blob.reload(); generation = int(blob.generation or 0),
\* a second request after the download; then the caller's mutation
LoadReload(w) ==
    /\ pc[w] = "reload"
    /\ Mutate(w, loaded[w].data, blob.generation)
    /\ UNCHANGED <<kind, blob, upd, attempt, stale_call, uploads, rejected, applied,
                   ensured>>
    /\ UNCHANGED <<auxVars, fetchVars, subsVars, notifyVars>>

\* save_with_generation returns None to its caller (from the return after the
\* upload, or from the return after the last failed attempt): the caller
\* returns its result.  The upload is the only call of save_with_generation
\* that can fail on the remote backend and "except Exception" catches all it
\* raises, so the callers' except branches (subscriber_service.py 65-69,
\* notification_service.py 127-131) are never entered and attempt stays 0.
SaveReturns(w) ==
    /\ pc' = [pc EXCEPT ![w] = "done"]
    /\ outcome' = [outcome EXCEPT ![w] = "returned"]

\* save_with_generation, one pass of its loop: upload_from_string with
\* if_generation_match; every exception is caught
SaveUpload(w) ==
    /\ pc[w] = "upload"
    /\ uploads' = [uploads EXCEPT ![w] = @ + 1]
    /\ stale_call' = [stale_call EXCEPT ![w] =
                         IF sv_attempt[w] = 0
                         THEN ~GenerationMatches(loaded[w].generation)
                         ELSE @]
    /\ IF GenerationMatches(sv_generation[w])
       THEN /\ blob' = Uploaded(loaded[w].data)
            /\ applied' = [applied EXCEPT ![w] = TRUE]
            /\ SaveReturns(w)
            /\ UNCHANGED rejected
       ELSE /\ rejected' = [rejected EXCEPT ![w] = @ + 1]
            /\ IF sv_attempt[w] >= SaveRetries - 1
               THEN SaveReturns(w)
               ELSE /\ pc' = [pc EXCEPT ![w] = "refresh"]
                    /\ UNCHANGED outcome
            /\ UNCHANGED <<blob, applied>>
    /\ UNCHANGED <<kind, upd, attempt, loaded, sv_attempt, sv_generation, ensured>>
    /\ UNCHANGED <<auxVars, fetchVars, subsVars, notifyVars>>

\* save_with_generation after a failed upload: sleep, blob.reload(),
\* generation = int(blob.generation or 0), next pass
SaveRefresh(w) ==
    /\ pc[w] = "refresh"
    /\ sv_generation' = [sv_generation EXCEPT ![w] = blob.generation]
    /\ sv_attempt' = [sv_attempt EXCEPT ![w] = @ + 1]
    /\ pc' = [pc EXCEPT ![w] = "upload"]
    /\ UNCHANGED <<kind, blob, upd, attempt, loaded, outcome, stale_call,
                   uploads, rejected, applied, ensured>>
    /\ UNCHANGED <<auxVars, fetchVars, subsVars, notifyVars>>

\* SubscriberService.__init__ -> _ensure_storage: the local file does not exist
\* (a remote save never creates it), so {"subscribers": []} is saved with
\* generation=None, an unconditional upload
EnsureStorage ==
    /\ kind = "subscribers"
    /\ ensured < MaxEnsure
    /\ ensured' = ensured + 1
    /\ blob' = Uploaded(DefaultDoc)
    /\ UNCHANGED <<kind, upd, pc, attempt, loaded, sv_attempt, sv_generation,
                   outcome, stale_call, uploads, rejected, applied>>
    /\ UNCHANGED <<auxVars, fetchVars, subsVars, notifyVars>>

InitStore == InitStoreVars /\ InitFetchVars /\ InitSubsVars /\ InitNotifyVars
                 /\ InitAuxVars

NextStore ==
    \/ \E w \in Writers : StartCycle(w)
    \/ \E w \in Writers : LoadDownload(w)
    \/ \E w \in Writers : LoadReload(w)
    \/ \E w \in Writers : SaveUpload(w)
    \/ \E w \in Writers : SaveRefresh(w)
    \/ EnsureStorage

SpecStore == InitStore /\ [][NextStore]_vars

(***************************************************************************)
(* Part 2: AnnouncementService.fetch_and_save.                             *)
(*                                                                         *)
(* An announcement is a Python dict, here a function from field names to   *)
(* values.  Timestamps (first_seen, last_seen, now) are counted in days.   *)
(* A title is the rank of the string in the order Python compares strings. *)
(***************************************************************************)

\* STALE_AFTER = timedelta(days=180)
STALE_AFTER == 180
\* date.min, the date of an announcement whose date is unknown
DateMin == 0

\* the active schools of config/schools.json, in their order, and the links
\* a listing page of each can show
Schools == <<"s1", "s2">>
LinksOf(s) == {"l1"}
Titles == {1, 2}
Dates == {DateMin}
\* time that passes between two runs
Steps == {1, STALE_AFTER - 1, STALE_AFTER + 1}

\* the dict _scrape_detail returns (the fields that reconciliation reads, and
\* title and date standing for the content fields)
Detail(s, l, t, d) == [school_id |-> s, link |-> l, title |-> t, date |-> d]

\* links of one listing page: "and absolute_url not in links" keeps them distinct
LinkLists(s) ==
    {q \in UNION {[1..n -> LinksOf(s)] : n \in 0..Cardinality(LinksOf(s))} :
        \A i, j \in DOMAIN q : i # j => q[i] # q[j]}

\* _scrape_school_announcements: one detail per link, in the links' order
SchoolItems(s) ==
    UNION {{[i \in DOMAIN q |-> Detail(s, q[i], t[i], d[i])] :
               t \in [DOMAIN q -> Titles], d \in [DOMAIN q -> Dates]} :
           q \in LinkLists(s)}

\* for idx, school in enumerate(schools): scraped_items.extend(school_items)
RECURSIVE ScrapedBatches(_)
ScrapedBatches(n) ==
    IF n = 0 THEN {<<>>}
    ELSE {b \o q : b \in ScrapedBatches(n - 1), q \in SchoolItems(Schools[n])}

\* key = (ann.get("school_id"), ann.get("link"))
KeyOf(ann) == <<ann.school_id, ann.link>>
\* if key[0] and key[1]
HasKey(ann) == ann.school_id # "" /\ ann.link # ""

\* ann.get("id", 0) or 0
IdOf(ann) == IF "id" \in DOMAIN ann THEN ann.id ELSE 0

\* date.isoformat() and datetime.fromisoformat(date_str).date()
IsoFormat(d) == [iso |-> d]
FromIsoFormat(text) == text.iso

\* JSONStorage.save_announcements: the date of each announcement is serialized
SaveAnnouncements(anns) ==
    [i \in DOMAIN anns |->
        [f \in DOMAIN anns[i] |->
            IF f = "date" THEN IsoFormat(anns[i][f]) ELSE anns[i][f]]]

\* JSONStorage.load_announcements: the date strings are deserialized
LoadAnnouncements(doc) ==
    [i \in DOMAIN doc |->
        [f \in DOMAIN doc[i] |->
            IF f = "date" THEN FromIsoFormat(doc[i][f]) ELSE doc[i][f]]]

\* existing_by_key[key] = ann: a dict keeps the place of a key's first
\* insertion and the value of its last
DictPut(d, ann) ==
    IF \E i \in DOMAIN d : KeyOf(d[i]) = KeyOf(ann)
    THEN [i \in DOMAIN d |-> IF KeyOf(d[i]) = KeyOf(ann) THEN ann ELSE d[i]]
    ELSE Append(d, ann)

\* the loop that builds existing_by_key from the loaded announcements
RECURSIVE ExistingByKey(_)
ExistingByKey(anns) ==
    IF anns = <<>> THEN <<>>
    ELSE LET d == ExistingByKey(SubSeq(anns, 1, Len(anns) - 1))
             ann == anns[Len(anns)]
         IN  IF HasKey(ann) THEN DictPut(d, ann) ELSE d

\* existing_by_key.pop(key, None): the value, as a sequence of at most one
\* mutant of DictGet: the lookup compares the link only
DictGetByLink(d, key) == SelectSeq(d, LAMBDA a : a.link = key[2])
DictGet(d, key) == SelectSeq(d, LAMBDA a : KeyOf(a) = key)
\* mutant of DictPop: get() instead of pop(), the entry stays in the dict
DictPopKeeps(d, key) == d
\* existing_by_key.pop(key, None): what is left of the dict
DictPop(d, key) == SelectSeq(d, LAMBDA a : KeyOf(a) # key)

\* d[field] = value on a dict
DictSet(d, field, value) ==
    [f \in DOMAIN d \cup {field} |-> IF f = field THEN value ELSE d[f]]

\* mutant of DictMerge: {**item, **existing_ann}, the stored fields win
DictMergeStoredWins(existing_ann, item) ==
    [f \in DOMAIN existing_ann \cup DOMAIN item |->
        IF f \in DOMAIN existing_ann THEN existing_ann[f] ELSE item[f]]
\* {**existing_ann, **item}
DictMerge(existing_ann, item) ==
    [f \in DOMAIN existing_ann \cup DOMAIN item |->
        IF f \in DOMAIN item THEN item[f] ELSE existing_ann[f]]

\* mutant of MergedItem: last_seen is not refreshed, the stored one stays
MergedItemKeepsLastSeen(existing_ann, item, now_iso) ==
    LET m1 == [f \in DOMAIN existing_ann \cup DOMAIN item |->
                  IF f \in DOMAIN item THEN item[f] ELSE existing_ann[f]]
    IN  DictSet(m1, "id", existing_ann.id)
\* mutant of MergedItem: the two timestamps are written the wrong way round
MergedItemStampsSwapped(existing_ann, item, now_iso) ==
    LET m1 == [f \in DOMAIN existing_ann \cup DOMAIN item |->
                  IF f \in DOMAIN item THEN item[f] ELSE existing_ann[f]]
    IN  DictSet(DictSet(DictSet(m1, "id", existing_ann.id), "first_seen", now_iso),
                "last_seen", existing_ann.first_seen)
\* mutant of MergedItem: merged_item = dict(item), the stored item is forgotten
MergedItemAsNew(existing_ann, item, now_iso) ==
    DictSet(DictSet(item, "first_seen", now_iso), "last_seen", now_iso)
\* mutant of MergedItem: first_seen is set to now on every observation
MergedItemFirstSeenNow(existing_ann, item, now_iso) ==
    LET m1 == [f \in DOMAIN existing_ann \cup DOMAIN item |->
                  IF f \in DOMAIN item THEN item[f] ELSE existing_ann[f]]
    IN  DictSet(DictSet(m1, "first_seen", now_iso), "last_seen", now_iso)
\* the branch "if existing_ann": merged_item of a scraped item that is stored
MergedItem(existing_ann, item, now_iso) ==
    LET m1 == DictMerge(existing_ann, item)
        m2 == DictSet(m1, "id", existing_ann.id)
        m3 == DictSet(m2, "first_seen",
                      IF "first_seen" \in DOMAIN existing_ann
                      THEN existing_ann.first_seen ELSE now_iso)
    IN  DictSet(m3, "last_seen", now_iso)

\* the branch "else": merged_item of a scraped item that is not stored
NewItem(item, now_iso) ==
    DictSet(DictSet(item, "first_seen", now_iso), "last_seen", now_iso)

\* for item in scraped_items: ... ; the state of the loop is the dict, merged
\* and newly_seen
RECURSIVE MergeLoop(_, _, _)
MergeLoop(items, by_key, now_iso) ==
    IF items = <<>>
    THEN [by_key |-> by_key, merged |-> <<>>, newly_seen |-> <<>>]
    ELSE LET r == MergeLoop(SubSeq(items, 1, Len(items) - 1), by_key, now_iso)
             item == items[Len(items)]
             found == DictGet(r.by_key, KeyOf(item))
         IN  IF ~HasKey(item) THEN r
             ELSE IF found # <<>>
             THEN [by_key |-> DictPop(r.by_key, KeyOf(item)),
                   merged |-> Append(r.merged, MergedItem(found[1], item, now_iso)),
                   newly_seen |-> r.newly_seen]
             ELSE [by_key |-> r.by_key,
                   merged |-> Append(r.merged, NewItem(item, now_iso)),
                   newly_seen |-> Append(r.newly_seen, NewItem(item, now_iso))]

\* mutant of KeepUnscraped: the items not scraped in this run are dropped
KeepUnscrapedNone(merged, by_key) == merged
\* merged.extend(existing_by_key.values())
KeepUnscraped(merged, by_key) == merged \o by_key

\* mutant of IsStale: the age is taken from first_seen
IsStaleByFirstSeen(ann, t) ==
    /\ "first_seen" \in DOMAIN ann
    /\ ann.first_seen < t - STALE_AFTER
\* last_seen and last_seen < cutoff, with cutoff = now - STALE_AFTER
IsStale(ann, t) ==
    /\ "last_seen" \in DOMAIN ann
    /\ ann.last_seen < t - STALE_AFTER

\* the loop that fills pruned
Prune(merged, t) == SelectSeq(merged, LAMBDA a : ~IsStale(a, t))

\* mutant of MaxId: the base of the new ids is 1 whatever the list holds
MaxIdOne(anns) == 1

\* max((a.get("id", 0) or 0) for a in pruned) if pruned else 0
MaxId(anns) ==
    IF anns = <<>> THEN 0
    ELSE CHOOSE m \in {IdOf(anns[i]) : i \in DOMAIN anns} :
             \A i \in DOMAIN anns : IdOf(anns[i]) <= m

\* key=lambda a: (a.get("date") or date.min, a.get("title", ""))
SortKey(ann) == <<ann.date, ann.title>>
\* the order of the key tuples
KeyLess(k1, k2) == k1[1] < k2[1] \/ (k1[1] = k2[1] /\ k1[2] < k2[2])

\* one insertion of a stable sort with reverse=True: x goes after every
\* element whose key is not less than its own
InsertDesc(sorted, x) ==
    LET before == {i \in DOMAIN sorted : ~KeyLess(SortKey(sorted[i]), SortKey(x))}
        n == Cardinality(before)
    IN  SubSeq(sorted, 1, n) \o <<x>> \o SubSeq(sorted, n + 1, Len(sorted))

\* pruned.sort(key=..., reverse=True)
RECURSIVE SortDesc(_)
SortDesc(anns) ==
    IF anns = <<>> THEN <<>>
    ELSE InsertDesc(SortDesc(SubSeq(anns, 1, Len(anns) - 1)), anns[Len(anns)])

\* mutant of AssignIds: every announcement is numbered again
RECURSIVE AssignIdsAll(_, _)
AssignIdsAll(anns, next_id) ==
    IF anns = <<>> THEN <<>>
    ELSE <<DictSet(anns[1], "id", next_id)>> \o AssignIdsAll(Tail(anns), next_id + 1)

\* for ann in pruned: if not ann.get("id"): ann["id"] = next_id; next_id += 1
RECURSIVE AssignIds(_, _)
AssignIds(anns, next_id) ==
    IF anns = <<>> THEN <<>>
    ELSE IF IdOf(anns[1]) = 0
    THEN <<DictSet(anns[1], "id", next_id)>> \o AssignIds(Tail(anns), next_id + 1)
    ELSE <<anns[1]>> \o AssignIds(Tail(anns), next_id)

\* the reconciliation of fetch_and_save, from the load to the list it saves
\* newly_seen holds the same dict objects as merged, so after the id loop
\* its items are the ones of the final list
Reconcile(loaded_anns, scraped_items, t) ==
    LET r == MergeLoop(scraped_items, ExistingByKey(loaded_anns), t)
        pruned == Prune(KeepUnscraped(r.merged, r.by_key), t)
        final == AssignIds(SortDesc(pruned), MaxId(pruned) + 1)
    IN  [pruned |-> final,
         newly_seen |-> [i \in DOMAIN r.newly_seen |->
                            DictGet(final, KeyOf(r.newly_seen[i]))[1]]]

\* the <<id, key>> pairs of a list of announcements
IdKeys(anns) == {<<anns[i].id, KeyOf(anns[i])>> : i \in DOMAIN anns}

(***************************************************************************)
(* Part 3: subscribers (subscriber_service.py).  A record of the document  *)
(* is modelled by its email, school_ids and active fields; created_at,     *)
(* updated_at and last_notified_at are never read by the code.             *)
(***************************************************************************)
\* the strings a caller passes as email (None and "" are both "" after
\* "email or ''")
RawEmails == {"a@x.io", "A@X.io", " a@x.io ", "b@x.io", "a@x", "a b@x.io", ""}

\* str.strip() on the strings of the model
StripStr(str) == CASE str = " a@x.io " -> "a@x.io" [] OTHER -> str

\* str.lower() on the strings of the model
LowerStr(str) == CASE str = "A@X.io" -> "a@x.io" [] OTHER -> str

\* _EMAIL_RE.match(value): ^[^@\s]+@[^@\s]+\.[^@\s]+$ on the strings of the model
MatchesEmailRe(value) == value \in {"a@x.io", "A@X.io", "b@x.io"}

\* mutant of ValidateEmail: the value is normalised but not checked
ValidateEmailUnchecked(email) ==
    [raised |-> FALSE, value |-> LowerStr(StripStr(email))]

\* _validate_email: the normalised email, or ValueError("Invalid email")
ValidateEmail(email) ==
    LET value == LowerStr(StripStr(email))
    IN  IF value = "" \/ ~MatchesEmailRe(value)
        THEN [raised |-> TRUE, value |-> ""]
        ELSE [raised |-> FALSE, value |-> value]

\* the school_ids arguments of the model
RawSchoolIds == {NoneIds, ListIds(<<>>), ListIds(<<"s1">>),
                 ListIds(<<"s2", "", "s1", "s2">>)}

\* sorted(set): the ids of the model are in lexicographic order in Schools
SortedIds(S) == SelectSeq(Schools, LAMBDA x : x \in S)

\* _normalize_school_ids: None, or the sorted distinct non-empty ids; an empty
\* result is None ("cleaned or None")
NormalizeSchoolIds(school_ids) ==
    IF school_ids.none THEN NoneIds
    ELSE LET cleaned == SortedIds({school_ids.ids[i] : i \in DOMAIN school_ids.ids}
                                      \ {""})
         IN  IF cleaned = <<>> THEN NoneIds ELSE ListIds(cleaned)

\* mutant of SameEmail: no stored record is recognised
SameEmailNever(sub, email_norm) == FALSE

\* (s.get("email") or "").lower() == email_norm
SameEmail(sub, email_norm) == LowerStr(sub.email) = email_norm

\* the first record of the loop "for s in subs: if ...: ...; break", 0 if none
FirstMatch(subs, email_norm) ==
    LET found == {i \in DOMAIN subs : SameEmail(subs[i], email_norm)}
    IN  IF found = {} THEN 0 ELSE CHOOSE i \in found : \A j \in found : i <= j

\* updater of subscribe: the first record of the email is updated and set
\* active, or a record is appended
SubscribeUpdater(subs, email_norm, school_ids_norm) ==
    LET i == FirstMatch(subs, email_norm)
        rec == [email |-> email_norm, school_ids |-> school_ids_norm,
                active |-> TRUE]
    IN  IF i # 0 THEN [subs EXCEPT ![i] = rec] ELSE Append(subs, rec)

\* updater of unsubscribe: the first record of the email is set inactive
UnsubscribeUpdater(subs, email_norm) ==
    LET i == FirstMatch(subs, email_norm)
    IN  IF i # 0 THEN [subs EXCEPT ![i].active = FALSE] ELSE subs

\* list_active without the test of the active field
ListEverySubscriber(subs) ==
    [i \in DOMAIN subs |->
        [email |-> subs[i].email, school_ids |-> subs[i].school_ids]]

\* list_active: Subscriber(email, school_ids) of the records with active True
ListActive(subs) ==
    LET active == SelectSeq(subs, LAMBDA sub : sub.active = TRUE)
    IN  [i \in DOMAIN active |->
            [email |-> active[i].email, school_ids |-> active[i].school_ids]]

(***************************************************************************)
(* Part 4: notifications (notification_service.py, email_service.py).      *)
(***************************************************************************)
\* announcements[:50] of _build_email_body
BodyLimit == 50

\* what can go wrong for one subscriber in a notify call: send_text raises,
\* the read of the sent-set fails, the write of the sent-set fails; "stop":
\* the process stops after save_announcements, before notify
NoFault == [kind |-> "none", email |-> ""]
Faults == {NoFault} \cup [kind : {"send", "read", "persist"}, email : Emails]

\* _announcement_key: f"{school_id}|{link}", None (here <<>>) if a part is missing
AnnouncementKey(ann) ==
    IF ann.school_id = "" \/ ann.link = "" THEN <<>>
    ELSE <<ann.school_id, "|", ann.link>>

\* keys = [k for k in keys if k]
AnnouncementKeys(announcements) ==
    LET keys == [i \in DOMAIN announcements |-> AnnouncementKey(announcements[i])]
    IN  SelectSeq(keys, LAMBDA k : k # <<>>)

\* _filter_by_subscriber: everything if school_ids is None or empty
FilterBySubscriber(subscriber, announcements) ==
    IF subscriber.school_ids.none \/ subscriber.school_ids.ids = <<>>
    THEN announcements
    ELSE LET allowed == {subscriber.school_ids.ids[i] :
                            i \in DOMAIN subscriber.school_ids.ids}
         IN  SelectSeq(announcements, LAMBDA a : a.school_id \in allowed)

\* mutant of FilterUnsent: nothing is filtered out
FilterUnsentNothing(existing_keys, announcements) == announcements

\* _filter_unsent / _filter_unsent_json once the stored keys have been read
FilterUnsent(existing_keys, announcements) ==
    IF AnnouncementKeys(announcements) = <<>> THEN <<>>
    ELSE SelectSeq(announcements, LAMBDA a : AnnouncementKey(a) \notin existing_keys)

\* the stored keys as _filter_unsent reads them; a failed read of the JSON
\* document is swallowed by BlobJsonStore.load, which returns the default
ReadSentKeys(docs, email, read_fails) ==
    IF read_fails THEN {} ELSE docs[email]

\* _record_sent / _record_sent_json without interference: the keys are added;
\* a failed write is swallowed (save_with_generation logs and returns,
\* insert_many is in try/except pass)
RecordSent(docs, email, announcements, persist_fails) ==
    LET keys == AnnouncementKeys(announcements)
    IN  IF keys = <<>> \/ persist_fails THEN docs
        ELSE [docs EXCEPT ![email] = @ \cup {keys[i] : i \in DOMAIN keys}]

\* the message of one notification: recipient, the count of the subject and
\* the keys of the announcements[:50] listed in the body
Message(email, subset) ==
    LET n == IF Len(subset) < BodyLimit THEN Len(subset) ELSE BodyLimit
    IN  [to |-> email, count |-> Len(subset),
         keys |-> AnnouncementKeys(SubSeq(subset, 1, n))]

\* one iteration of "for subscriber in subscribers" on the loop state r
NotifyOne(r, subscriber, new_list, fault) ==
    LET email == subscriber.email
        hit(k) == fault = [kind |-> k, email |-> email]
        by_scope == FilterBySubscriber(subscriber, new_list)
        reads == AnnouncementKeys(by_scope) # <<>>
        done == [r EXCEPT !.processed = Append(@, email)]
    IN  IF reads /\ hit("read") /\ dedupe_backend = "mongo"
        THEN \* self._collection.find raises, outside the try of notify
             [done EXCEPT !.raised = TRUE, !.fault_hit = TRUE, !.store_fault = TRUE]
        ELSE
        LET read_fails == reads /\ hit("read")
            subset == FilterUnsent(ReadSentKeys(r.sent_docs, email, read_fails),
                                   by_scope)
            seen == [done EXCEPT !.fault_hit = @ \/ read_fails,
                                 !.store_fault = @ \/ read_fails]
        IN  IF subset = <<>> THEN seen
            ELSE IF email_enabled /\ hit("send")
            THEN \* send_text raises: logged by the except of notify
                 [seen EXCEPT !.fault_hit = TRUE,
                              !.send_failed = Append(@, email)]
            ELSE [seen EXCEPT
                    !.mails = IF email_enabled
                              THEN Append(@, Message(email, subset)) ELSE @,
                    !.sent_docs = RecordSent(@, email, subset, hit("persist")),
                    !.sent = @ + 1,
                    !.fault_hit = @ \/ hit("persist"),
                    !.store_fault = @ \/ hit("persist")]

\* for subscriber in subscribers: ...; an exception that leaves the loop
\* ends it
RECURSIVE NotifyLoop(_, _, _, _)
NotifyLoop(subscribers, new_list, docs, fault) ==
    IF subscribers = <<>>
    THEN [sent_docs |-> docs, mails |-> <<>>, sent |-> 0, processed |-> <<>>,
          raised |-> FALSE, fault_hit |-> FALSE, store_fault |-> FALSE,
          send_failed |-> <<>>]
    ELSE LET r == NotifyLoop(SubSeq(subscribers, 1, Len(subscribers) - 1),
                             new_list, docs, fault)
         IN  IF r.raised THEN r
             ELSE NotifyOne(r, subscribers[Len(subscribers)], new_list, fault)

\* notify: returns 0 at once when there is nothing new
Notify(subscribers, new_announcements, docs, fault) ==
    IF new_announcements = <<>>
    THEN NotifyLoop(<<>>, <<>>, docs, fault)
    ELSE NotifyLoop(subscribers, new_announcements, docs, fault)

\* the record kept of a notify call with result r
CallRecord(items, r, stopped) ==
    [items |-> items, mails |-> r.mails, sent |-> r.sent,
     processed |-> r.processed, raised |-> r.raised, fault_hit |-> r.fault_hit,
     stopped |-> stopped,
     prev_items |-> notify_call.items,
     prev_clean |-> (calls + runs > 0 /\ ~notify_call.fault_hit
                        /\ ~notify_call.stopped),
     before |-> sent_docs, send_failed |-> r.send_failed]

\* the process stops between save_announcements and notify
StopFault == [kind |-> "stop", email |-> ""]

\* fetch_and_save: scrape every school, load, reconcile, save, notify the
\* active subscribers of the newly seen announcements.  The save is taken to
\* succeed (a failed write is logged by _write_data and not raised).  The
\* SubscriberService and NotificationService built for the notification find
\* data/subscribers.json in place, so _ensure_storage writes nothing; an
\* exception of notify is logged by the except around it.  (The singleton
\* sets bind each intermediate value once.)
FetchAndSave(batch, step, fault) ==
    /\ \E loaded_anns \in {LoadAnnouncements(store)} :
       \E r \in {Reconcile(loaded_anns, batch, now + step)} :
       \E n \in {IF fault = StopFault
                  THEN Notify(<<>>, <<>>, sent_docs, NoFault)
                  ELSE Notify(ListActive(subs_doc), r.newly_seen, sent_docs, fault)} :
           /\ now' = now + step
           /\ existing' = loaded_anns
           /\ scraped' = batch
           /\ newly_seen' = r.newly_seen
           /\ store' = SaveAnnouncements(r.pruned)
           /\ ever_assigned' = ever_assigned \cup IdKeys(r.pruned)
           /\ sent_docs' = n.sent_docs
           /\ outbox' = outbox \o n.mails
           /\ store_faulted' = (store_faulted \/ n.store_fault)
           /\ notify_call' = CallRecord(r.newly_seen, n, fault = StopFault)
    /\ same_batch' = (runs > 0 /\ batch = scraped)
    /\ runs' = runs + 1
    /\ UNCHANGED <<auxVars, storeVars, subsVars, email_enabled, dedupe_backend, calls>>

InitFetch == InitStoreVars /\ InitFetchVars /\ InitSubsVars /\ InitNotifyVars
                 /\ InitAuxVars
                 /\ kind = "subscribers"
                 /\ upd = [w \in Writers |-> "k1"]

\* every batch a run can scrape
Batches == ScrapedBatches(Len(Schools))

\* runs of an installation without subscribers: notify has nobody to process
NextFetch ==
    /\ runs < MaxRuns
    /\ \E batch \in Batches : \E step \in Steps :
           FetchAndSave(batch, step, NoFault)

SpecFetch == InitFetch /\ [][NextFetch]_vars

(***************************************************************************)
(* Subscribe and unsubscribe calls one after the other on the file-backed  *)
(* subscribers document: each call is one load-modify-save cycle of        *)
(* _update_file_atomic that nothing interferes with.                       *)
(***************************************************************************)
\* subscribe(email, school_ids)
Subscribe(email, school_ids) ==
    /\ sub_calls < MaxSubCalls
    /\ LET v == ValidateEmail(email)
       IN  /\ subs_doc' = IF v.raised THEN subs_doc
                          ELSE SubscribeUpdater(subs_doc, v.value,
                                                NormalizeSchoolIds(school_ids))
           /\ sub_call' = [op |-> "subscribe", email |-> email,
                           school_ids |-> school_ids, raised |-> v.raised,
                           before |-> subs_doc, cycle |-> ~v.raised]
    /\ sub_calls' = sub_calls + 1
    /\ UNCHANGED <<auxVars, storeVars, fetchVars, notifyVars>>

\* unsubscribe(email)
Unsubscribe(email) ==
    /\ sub_calls < MaxSubCalls
    /\ LET v == ValidateEmail(email)
       IN  /\ subs_doc' = IF v.raised THEN subs_doc
                          ELSE UnsubscribeUpdater(subs_doc, v.value)
           /\ sub_call' = [op |-> "unsubscribe", email |-> email,
                           school_ids |-> NoneIds, raised |-> v.raised,
                           before |-> subs_doc, cycle |-> ~v.raised]
    /\ sub_calls' = sub_calls + 1
    /\ UNCHANGED <<auxVars, storeVars, fetchVars, notifyVars>>

InitSubs == InitFetch

NextSubs ==
    \/ \E email \in RawEmails : \E school_ids \in RawSchoolIds :
           Subscribe(email, school_ids)
    \/ \E email \in RawEmails : Unsubscribe(email)

SpecSubs == InitSubs /\ [][NextSubs]_vars

(***************************************************************************)
(* Notifications with two active subscribers: a@x.io, who follows school   *)
(* s1, and b@x.io, who follows every school.                               *)
(***************************************************************************)
TwoSubscribers ==
    SubscribeUpdater(SubscribeUpdater(<<>>, "a@x.io", ListIds(<<"s1">>)),
                     "b@x.io", NoneIds)

\* the batches of the notification specifications: the titles play no part
RunBatches == {b \in Batches : \A i \in DOMAIN b : b[i].title = 1}
RunSteps == {1, STALE_AFTER + 1}

\* new_announcements as fetch_and_save passes them: the newly seen items of a
\* run on an empty store
NotifyItems == {Reconcile(<<>>, b, 1).newly_seen : b \in RunBatches}

\* NotificationService().notify(SubscriberService().list_active(), items)
NotifyCall(items, fault) ==
    /\ calls < MaxCalls
    /\ \E n \in {Notify(ListActive(subs_doc), items, sent_docs, fault)} :
           /\ sent_docs' = n.sent_docs
           /\ outbox' = outbox \o n.mails
           /\ store_faulted' = (store_faulted \/ n.store_fault)
           /\ notify_call' = CallRecord(items, n, FALSE)
    /\ calls' = calls + 1
    /\ UNCHANGED <<auxVars, storeVars, fetchVars, subsVars, email_enabled, dedupe_backend>>

InitNotify ==
    /\ InitStoreVars /\ kind = "sent" /\ upd = [w \in Writers |-> "k1"]
    /\ InitFetchVars
    /\ InitAuxVars
    /\ subs_doc = TwoSubscribers /\ sub_call = NoSubCall /\ sub_calls = 0
    /\ sent_docs = [e \in Emails |-> {}]
    /\ outbox = <<>>
    /\ email_enabled \in BOOLEAN
    /\ dedupe_backend \in {"json", "mongo"}
    /\ store_faulted = FALSE
    /\ notify_call = NoNotifyCall
    /\ calls = 0

NextNotify ==
    \E items \in NotifyItems : \E fault \in Faults : NotifyCall(items, fault)

SpecNotify == InitNotify /\ [][NextNotify]_vars

\* fetch_and_save runs with the two subscribers and the JSON sent-sets
InitRun == InitNotify /\ dedupe_backend = "json"

NextRun ==
    /\ runs < MaxNotifyRuns
    /\ \E batch \in RunBatches : \E step \in RunSteps :
           \E fault \in Faults \cup {StopFault} :
               FetchAndSave(batch, step, fault)

SpecRun == InitRun /\ [][NextRun]_vars

(***************************************************************************)
(* The publication date of _scrape_detail.  A meta tag is <<>> when the    *)
(* page has none and <<content>> otherwise; the PDF attachments give a set *)
(* of dates and the text heuristic a date or None (<<>>).                  *)
(***************************************************************************)
\* content attributes of the model: empty, unparseable, two dates
MetaTags == {<<>>, <<"">>, <<"n.d.">>, <<"2024-01-10">>, <<"2024-01-20">>}
PdfDates == {5, 10, 30}
TextDates == {<<>>, <<15>>}

\* _parse_date: dateparser.parse(value).date(), date.min when that fails
ParseDate(value) ==
    CASE value = "2024-01-10" -> 10
      [] value = "2024-01-20" -> 20
      [] OTHER -> DateMin

\* "(meta := soup.find(...)) and meta.get("content")": the tag is there and
\* its content is not empty
HasContent(tag) == tag # <<>> /\ tag[1] # ""

\* date_value: the content of the first tag that has one, None (<<>>) if none
DateValue(published_time, date_published, time_datetime) ==
    IF HasContent(published_time) THEN published_time
    ELSE IF HasContent(date_published) THEN date_published
    ELSE IF HasContent(time_datetime) THEN time_datetime
    ELSE <<>>

\* earliest_pdf_date = min(pdf_dates) if pdf_dates else None
EarliestPdfDate(pdf_dates) ==
    IF pdf_dates = {} THEN <<>>
    ELSE <<CHOOSE d \in pdf_dates : \A e \in pdf_dates : d <= e>>

\* published of _scrape_detail
Published(d) ==
    LET date_value == DateValue(d.published_time, d.date_published, d.time_datetime)
        from_meta == IF date_value # <<>> THEN ParseDate(date_value[1]) ELSE DateMin
        pdf_date == EarliestPdfDate(d.pdf_dates)
        from_pdf == IF from_meta = DateMin /\ pdf_date # <<>> THEN pdf_date[1]
                    ELSE from_meta
    IN  IF from_pdf = DateMin /\ d.text_date # <<>> THEN d.text_date[1]
        ELSE from_pdf

\* the date part of one _scrape_detail call
ScrapeDetail ==
    /\ detail.pc = "fetched"
    /\ detail' = [detail EXCEPT !.pc = "done", !.published = Published(detail)]
    /\ UNCHANGED <<lateVars, storeVars, fetchVars, subsVars, notifyVars, get, bstore, fail_run, runner, notifier>>

InitDetail ==
    /\ InitStoreVars /\ kind = "subscribers" /\ upd = [w \in Writers |-> "k1"]
    /\ InitFetchVars /\ InitSubsVars /\ InitNotifyVars
    /\ detail \in [pc : {"fetched"}, published_time : MetaTags,
                   date_published : MetaTags, time_datetime : MetaTags,
                   pdf_dates : SUBSET PdfDates, text_date : TextDates,
                   published : {DateMin}]
    /\ get = NoGet
    /\ bstore = NoBlobStore
    /\ fail_run = NoFailRun
    /\ runner = [t \in Runners |-> IdleRunner]
    /\ notifier = NoNotifier
    /\ InitLateVars

NextDetail == ScrapeDetail

SpecDetail == InitDetail /\ [][NextDetail]_vars

(***************************************************************************)
(* One page fetch: _get(url) as called by _fetch_listing_html or           *)
(* _scrape_detail, and the Playwright fallback.  A recursive call of _get  *)
(* is never returned from into the loop of its caller (its result is       *)
(* returned, its exception leaves the except clause), so the frames below  *)
(* the innermost one play no part and the state is that of the innermost.  *)
(***************************************************************************)
\* _generate_url_variants: two schemes times two hosts, by index
Variants == 1..4

\* retry_count < 3
MaxRetry == 3

\* what a request can give: a page, a page with an empty body, HTTP 429 or
\* 503, another HTTP error, or an exception of the session
Responses == {"ok", "empty", "busy", "http_error", "exception"}

\* what _fetch_with_playwright can give
FallbackResults == {"content", "empty", "raised"}

\* mutant of MayRetry: the number of retries is not limited
MayRetryAlways(resp, retry_count) == resp = "busy"
\* if status_code in [429, 503] and retry_count < 3
MayRetry(resp, retry_count) == resp = "busy" /\ retry_count < MaxRetry

\* self.session.get(candidate) and what follows it in _get and its caller.
\* paced tells whether _smart_delay has run since the request before:
\* _get calls it once, on entry, and request_count counts its calls.
GetRequest(resp) ==
    /\ get.pc = "get"
    /\ LET req == [idx |-> get.idx, retry_count |-> get.retry_count, resp |-> resp,
                   slept |-> get.backoff_time, paced |-> get.paced]
           g == [get EXCEPT !.prev = get.last, !.last = req, !.backoff_time = 0,
                            !.paced = FALSE, !.requests = @ + 1]
       IN  get' =
             IF resp = "ok" THEN [g EXCEPT !.pc = "ok"]
             ELSE IF resp = "empty"
             THEN \* "if not listing_html" / "if not html: raise"
                  [g EXCEPT !.pc = "failed"]
             ELSE IF MayRetry(resp, get.retry_count)
             THEN \* time.sleep(backoff_time); return self._get(url, referer,
                  \* retry_count + 1), which starts with self._smart_delay()
                  [g EXCEPT !.backoff_time = 2 ^ get.retry_count,
                            !.retry_count = @ + 1, !.idx = 1, !.errors = {},
                            !.paced = TRUE, !.request_count = @ + 1]
             ELSE IF get.idx < 4
             THEN \* errors.append(...); continue
                  [g EXCEPT !.errors = @ \cup {get.idx}, !.idx = @ + 1]
             ELSE \* raise requests.HTTPError("All variants failed ...")
                  [g EXCEPT !.errors = @ \cup {get.idx}, !.pc = "fallback"]
    /\ UNCHANGED <<lateVars, storeVars, fetchVars, subsVars, notifyVars, detail, bstore, fail_run, runner, notifier>>

\* except requests.HTTPError: html = self._fetch_with_playwright(url, ...);
\* an exception of Playwright leaves the function and is caught by the
\* caller's except Exception
Fallback(result) ==
    /\ get.pc = "fallback"
    /\ get' = [get EXCEPT !.fallback = result,
                          !.pc = IF result = "content" THEN "ok" ELSE "failed"]
    /\ UNCHANGED <<lateVars, storeVars, fetchVars, subsVars, notifyVars, detail, bstore, fail_run, runner, notifier>>

InitGet ==
    /\ InitStoreVars /\ kind = "subscribers" /\ upd = [w \in Writers |-> "k1"]
    /\ InitFetchVars /\ InitSubsVars /\ InitNotifyVars
    /\ detail = NoDetail
    /\ get \in {[NoGet EXCEPT !.pc = "get", !.kind = k, !.paced = TRUE,
                                !.request_count = 1] : k \in {"listing", "detail"}}
    /\ bstore = NoBlobStore
    /\ fail_run = NoFailRun
    /\ runner = [t \in Runners |-> IdleRunner]
    /\ notifier = NoNotifier
    /\ InitLateVars

NextGet ==
    \/ \E resp \in Responses : GetRequest(resp)
    \/ \E result \in FallbackResults : Fallback(result)

SpecGet == InitGet /\ [][NextGet]_vars

(***************************************************************************)
(* BlobJsonStore with GCS_BUCKET set (blob_json_store.py): load() and      *)
(* save() as JSONStorage calls them, save() being                          *)
(* save_with_generation(data, generation=None).  The environment of a call *)
(* says whether _get_client gives a client, whether the service fails      *)
(* during the load, how many upload attempts fail before one succeeds, and *)
(* whether the local file can be read or written.                          *)
(***************************************************************************)
\* documents that are saved
BlobDocs == {"d1", "d2"}

\* load() and save() calls of one history
MaxBlobOps == 3

\* load_with_generation: what it returns
LoadWithGeneration(b, client, remote_fault, local_fault) ==
    IF client /\ ~remote_fault
    THEN IF ~b.remote.exists
         THEN [data |-> "default", generation |-> 0]
         ELSE [data |-> b.remote.data, generation |-> b.remote.generation]
    ELSE \* no client, or "GCS JSON load failed ...; falling back to local"
         IF local_fault \/ ~b.local.exists
         THEN [data |-> "default", generation |-> 0]
         ELSE [data |-> b.local.data, generation |-> 0]

\* save_with_generation(data, None): where the document is written.  With a
\* client the loop makes up to "retries" attempts and returns after the first
\* that succeeds and after the last that fails; the local file is written only
\* when there is no bucket or no client.
SaveOutcome(gcs, client, errs, local_fault) ==
    IF gcs /\ client
    THEN IF errs < SaveRetries THEN "remote" ELSE "none"
    ELSE IF local_fault THEN "none" ELSE "local"

BlobLoad(client, remote_fault, local_fault) ==
    /\ bstore.ops < MaxBlobOps
    /\ \E r \in {LoadWithGeneration(bstore, client, remote_fault, local_fault)} :
          bstore' = [bstore EXCEPT
                        !.ops = @ + 1,
                        !.op = [NoBlobOp EXCEPT !.name = "load", !.client = client,
                                                !.remote_fault = remote_fault,
                                                !.local_fault = local_fault,
                                                !.data = r.data,
                                                !.generation = r.generation]]
    /\ UNCHANGED <<lateVars, storeVars, fetchVars, subsVars, notifyVars, detail, get, fail_run, runner, notifier>>

BlobSave(data, client, errs, local_fault) ==
    /\ bstore.ops < MaxBlobOps
    /\ \E o \in {SaveOutcome(TRUE, client, errs, local_fault)} :
          bstore' = [bstore EXCEPT
                        !.ops = @ + 1,
                        !.remote = IF o = "remote"
                                   THEN [exists |-> TRUE, data |-> data,
                                         generation |-> @.generation + 1]
                                   ELSE @,
                        !.local = IF o = "local"
                                  THEN [exists |-> TRUE, data |-> data]
                                  ELSE @,
                        !.op = [NoBlobOp EXCEPT !.name = "save", !.client = client,
                                                !.errs = errs,
                                                !.local_fault = local_fault,
                                                !.arg = data, !.outcome = o]]
    /\ UNCHANGED <<lateVars, storeVars, fetchVars, subsVars, notifyVars, detail, get, fail_run, runner, notifier>>

InitBlob ==
    /\ InitStoreVars /\ kind = "subscribers" /\ upd = [w \in Writers |-> "k1"]
    /\ InitFetchVars /\ InitSubsVars /\ InitNotifyVars
    /\ detail = NoDetail /\ get = NoGet
    /\ bstore = NoBlobStore
    /\ fail_run = NoFailRun
    /\ runner = [t \in Runners |-> IdleRunner]
    /\ notifier = NoNotifier
    /\ InitLateVars

NextBlob ==
    \/ \E client, remote_fault, local_fault \in BOOLEAN :
           BlobLoad(client, remote_fault, local_fault)
    \/ \E data \in BlobDocs : \E client, local_fault \in BOOLEAN :
       \E errs \in 0..SaveRetries :
           BlobSave(data, client, errs, local_fault)

SpecBlob == InitBlob /\ [][NextBlob]_vars

(***************************************************************************)
(* fetch_and_save with sources and detail URLs that fail and with a        *)
(* snapshot store that may not take the write.  The snapshot is the one    *)
(* document that the store reads and writes; a run whose write is taken    *)
(* nowhere leaves it as it was.                                            *)
(***************************************************************************)
\* the links that the listing page of a source holds, in page order
ListingLinks == <<"l1", "l2">>

\* what the pages of one source can do in a run (no detail page is asked
\* for when the listing gave no links)
Pages == {p \in [listing : {"ok", "empty", "raised"},
                 detail : [{"l1", "l2"} -> {"ok", "raised"}]] :
             p.listing # "ok" => p.detail = OkPages.detail}

\* get_active_schools(): the active schools of schools.json, [] when the file
\* is missing or invalid
Configs == {<<>>, <<"s1">>, <<"s2">>, <<"s1", "s2">>}

\* the pages of the configured sources (the others are not visited)
Webs(config) ==
    {w \in [{"s1", "s2"} -> Pages] :
        \A s \in {"s1", "s2"} :
            (\A i \in DOMAIN config : config[i] # s) => w[s] = OkPages}

\* runs of one history
MaxFailRuns == 2

\* where save_announcements can leave the snapshot, over the environments of
\* a write: bucket configured or not, client or none, uploads that succeed or
\* all fail, local file writable or not
WriteOutcomes ==
    {SaveOutcome(gcs, client, errs, local_fault) :
        gcs \in BOOLEAN, client \in BOOLEAN, errs \in {0, SaveRetries},
        local_fault \in BOOLEAN}

\* for href in links[:10]: try: items.append(self._scrape_detail(href, school))
\* except Exception: logging.warning("Skipping ...")
RECURSIVE ScrapeLinks(_, _, _)
ScrapeLinks(s, links, pages) ==
    IF links = <<>> THEN <<>>
    ELSE (IF pages.detail[Head(links)] = "ok"
          THEN <<Detail(s, Head(links), 1, DateMin)>>
          ELSE <<>>) \o ScrapeLinks(s, Tail(links), pages)

\* _scrape_school_announcements without its except clauses: an exception of
\* the listing or of a detail page leaves the function
ScrapeSchoolUncaught(s, pages) ==
    [raised |-> (pages.listing = "raised"
                    \/ (pages.listing = "ok"
                          /\ \E l \in {"l1", "l2"} : pages.detail[l] = "raised")),
     items |-> <<>>]

\* _scrape_school_announcements: [] when the listing is empty or anything
\* outside the detail loop raises
ScrapeSchoolAnnouncements(s, pages) ==
    [raised |-> FALSE,
     items |-> IF pages.listing = "ok" THEN ScrapeLinks(s, ListingLinks, pages)
               ELSE <<>>]

\* the loop of fetch_and_save over the schools: no try around the call
RECURSIVE ScrapeAll(_, _)
ScrapeAll(config, web) ==
    IF config = <<>> THEN [raised |-> FALSE, items |-> <<>>]
    ELSE LET first == ScrapeSchoolAnnouncements(Head(config), web[Head(config)])
             rest == ScrapeAll(Tail(config), web)
         IN  IF first.raised THEN [raised |-> TRUE, items |-> <<>>]
             ELSE [raised |-> rest.raised, items |-> first.items \o rest.items]

FetchAndSaveWithFailures(config, web, write) ==
    /\ runs < MaxFailRuns
    /\ \E scr \in {ScrapeAll(config, web)} :
         IF scr.raised
         THEN /\ fail_run' = [ran |-> TRUE, config |-> config, web |-> web,
                              write |-> "none", raised |-> TRUE, count |-> 0,
                              memory_cache |-> fail_run.memory_cache]
              /\ UNCHANGED <<now, existing, scraped, newly_seen, store,
                             ever_assigned, same_batch, notifyVars>>
         ELSE \E loaded_anns \in {LoadAnnouncements(store)} :
              \E r \in {Reconcile(loaded_anns, scr.items, now + 1)} :
              \E n \in {Notify(ListActive(subs_doc), r.newly_seen, sent_docs, NoFault)} :
                  /\ now' = now + 1 /\ existing' = loaded_anns
                  /\ scraped' = scr.items /\ newly_seen' = r.newly_seen
                  /\ store' = IF write = "none" THEN store
                              ELSE SaveAnnouncements(r.pruned)
                  /\ ever_assigned' = ever_assigned \cup IdKeys(r.pruned)
                  /\ same_batch' = (runs > 0 /\ scr.items = scraped)
                  /\ sent_docs' = n.sent_docs /\ outbox' = outbox \o n.mails
                  /\ store_faulted' = (store_faulted \/ n.store_fault)
                  /\ notify_call' = CallRecord(r.newly_seen, n, FALSE)
                  /\ UNCHANGED <<email_enabled, dedupe_backend, calls>>
                  /\ fail_run' = [ran |-> TRUE, config |-> config, web |-> web,
                                  write |-> write, raised |-> FALSE,
                                  count |-> Len(r.pruned),
                                  memory_cache |-> r.pruned]
    /\ runs' = runs + 1
    /\ UNCHANGED <<lateVars, storeVars, subsVars, detail, get, bstore, runner, notifier>>

\* get_all_announcements(): the cached list when there is one that is not
\* empty and less than CACHE_TTL old (fresh), else the stored document
GetAllAnnouncements(memory_cache, doc, fresh) ==
    IF memory_cache # <<>> /\ fresh THEN memory_cache
    ELSE LoadAnnouncements(doc)

InitFail == InitFetch

NextFail ==
    \E config \in Configs : \E web \in Webs(config) : \E write \in WriteOutcomes :
        FetchAndSaveWithFailures(config, web, write)

SpecFail == InitFail /\ [][NextFail]_vars

(***************************************************************************)
(* fetch_and_save called from two threads of the server process.  Nothing  *)
(* in fetch_and_save, in the controller or in the scheduler job takes a    *)
(* lock, so the steps of two calls interleave: the scraping loop, the load *)
(* of the snapshot, and the merge with the save and the notification.      *)
(***************************************************************************)
\* fetch_and_save calls of one history
MaxOverlapRuns == 3

\* lines 669-676: the schools are scraped
StartRun(t, batch) ==
    /\ runs < MaxOverlapRuns
    /\ runner[t].pc = "idle"
    /\ runner' = [runner EXCEPT ![t] = [pc |-> "scraped", scraped_items |-> batch,
                                        existing |-> <<>>]]
    /\ runs' = runs + 1
    /\ UNCHANGED <<lateVars, storeVars, subsVars, notifyVars, detail, get, bstore, fail_run,
                   notifier, store, now, existing, scraped, newly_seen, same_batch,
                   ever_assigned>>

\* line 679: existing = self.storage.load_announcements()
LoadSnapshot(t) ==
    /\ runner[t].pc = "scraped"
    /\ runner' = [runner EXCEPT ![t].pc = "loaded",
                                ![t].existing = LoadAnnouncements(store)]
    /\ UNCHANGED <<lateVars, storeVars, fetchVars, subsVars, notifyVars, detail, get, bstore,
                   fail_run, notifier>>

\* lines 686-756: merge, prune, ids, save, notify
SaveSnapshot(t) ==
    /\ runner[t].pc = "loaded"
    /\ \E r \in {Reconcile(runner[t].existing, runner[t].scraped_items, now + 1)} :
       \E n \in {Notify(ListActive(subs_doc), r.newly_seen, sent_docs, NoFault)} :
           /\ now' = now + 1 /\ existing' = runner[t].existing
           /\ scraped' = runner[t].scraped_items /\ newly_seen' = r.newly_seen
           /\ store' = SaveAnnouncements(r.pruned)
           /\ ever_assigned' = ever_assigned \cup IdKeys(r.pruned)
           /\ sent_docs' = n.sent_docs /\ outbox' = outbox \o n.mails
           /\ store_faulted' = (store_faulted \/ n.store_fault)
           /\ notify_call' = CallRecord(r.newly_seen, n, FALSE)
    /\ same_batch' = (runner[t].scraped_items = scraped)
    /\ runner' = [runner EXCEPT ![t] = IdleRunner]
    /\ UNCHANGED <<lateVars, storeVars, subsVars, detail, get, bstore, fail_run, notifier,
                   runs, email_enabled, dedupe_backend, calls>>

InitOverlap == InitFetch

NextOverlap ==
    \E t \in Runners :
        \/ \E batch \in RunBatches : StartRun(t, batch)
        \/ LoadSnapshot(t)
        \/ SaveSnapshot(t)

SpecOverlap == InitOverlap /\ [][NextOverlap]_vars

(***************************************************************************)
(* fetch_and_save runs while subscribe and unsubscribe calls are served.   *)
(* The run reads the subscribers with list_active() when it evaluates the  *)
(* arguments of notify (line 744) and mails them in notify(); a subscribe  *)
(* or unsubscribe call of another thread can complete in between.          *)
(***************************************************************************)
\* runs of one history
MaxUnsubRuns == 2

\* lines 669-744: scrape, load, merge, save, SubscriberService().list_active()
RunToListActive(batch) ==
    /\ runs < MaxUnsubRuns
    /\ notifier.pc = "idle"
    /\ \E loaded_anns \in {LoadAnnouncements(store)} :
       \E r \in {Reconcile(loaded_anns, batch, now + 1)} :
           /\ now' = now + 1 /\ existing' = loaded_anns /\ scraped' = batch
           /\ newly_seen' = r.newly_seen /\ store' = SaveAnnouncements(r.pruned)
           /\ ever_assigned' = ever_assigned \cup IdKeys(r.pruned)
           /\ notifier' = [NoNotifier EXCEPT
                              !.pc = "listed",
                              !.subscribers = ListActive(subs_doc),
                              !.items = r.newly_seen,
                              !.active_at_list =
                                  {subs_doc[i].email :
                                      i \in {j \in DOMAIN subs_doc : subs_doc[j].active}}]
    /\ same_batch' = (runs > 0 /\ batch = scraped)
    /\ runs' = runs + 1
    /\ UNCHANGED <<lateVars, storeVars, subsVars, notifyVars, detail, get, bstore, fail_run,
                   runner>>

\* lines 744-756: NotificationService().notify(subscribers, newly_seen)
RunNotify ==
    /\ notifier.pc = "listed"
    /\ \E n \in {Notify(notifier.subscribers, notifier.items, sent_docs, NoFault)} :
           /\ sent_docs' = n.sent_docs /\ outbox' = outbox \o n.mails
           /\ store_faulted' = (store_faulted \/ n.store_fault)
           /\ notify_call' = CallRecord(notifier.items, n, FALSE)
           /\ notifier' = [notifier EXCEPT
                              !.pc = "idle", !.done = TRUE,
                              !.mailed = {n.mails[i].to : i \in DOMAIN n.mails},
                              !.active_at_send =
                                  {subs_doc[i].email :
                                      i \in {j \in DOMAIN subs_doc : subs_doc[j].active}}]
    /\ UNCHANGED <<lateVars, storeVars, fetchVars, subsVars, detail, get, bstore, fail_run,
                   runner, email_enabled, dedupe_backend, calls>>

InitUnsub == InitNotify /\ email_enabled /\ dedupe_backend = "json"

NextUnsub ==
    \/ \E batch \in RunBatches : RunToListActive(batch)
    \/ RunNotify
    \/ \E email \in Emails : Subscribe(email, NoneIds)
    \/ \E email \in Emails : Unsubscribe(email)

SpecUnsub == InitUnsub /\ [][NextUnsub]_vars

(***************************************************************************)
(* _extract_attachments: the loop over the anchors of a detail page.  An   *)
(* anchor is its absolute URL and whether its extension or its text makes  *)
(* it an attachment; two anchors can have the same URL and differ in text. *)
(***************************************************************************)
\* if len(attachments) >= 10: break
MaxAttachments == 10

\* anchors of the longest page, and the anchors of a page that are not the
\* first attachment anchor of a new URL
MaxAnchors == 12
MaxOdd == 2

\* the URL of anchor i: its own, or for "dup" the URL of the anchor before it
RECURSIVE AnchorUrl(_, _)
AnchorUrl(kinds, i) ==
    IF kinds[i] = "dup" /\ i > 1 THEN AnchorUrl(kinds, i - 1) ELSE i

\* the anchors of a page, from their kinds: an attachment anchor with a URL
\* of its own ("new"), an attachment anchor that repeats the URL of the
\* anchor before it ("dup"), an anchor that is no attachment ("plain")
PageOf(kinds) ==
    [i \in DOMAIN kinds |->
        [url |-> AnchorUrl(kinds, i), is_attachment |-> kinds[i] # "plain"]]

\* soup.find_all('a', href=True) of the pages of the model
AttachPages ==
    UNION {UNION {{PageOf([j \in 1..n |-> IF j \in odd THEN k[j] ELSE "new"]) :
                      k \in [odd -> {"dup", "plain"}]} :
                  odd \in {o \in SUBSET (1..n) : Cardinality(o) <= MaxOdd}} :
           n \in 0..MaxAnchors}

\* mutant of VisitLink: the test "absolute_url in seen_urls" is left out
VisitLinkUnseen(a, link) ==
    IF link.is_attachment
    THEN [a EXCEPT !.attachments = Append(@, link.url),
                   !.pc = IF Len(a.attachments) + 1 >= MaxAttachments
                          THEN "done" ELSE "loop"]
    ELSE a

\* the body of "for link in soup.find_all('a', href=True)"
VisitLink(a, link) ==
    IF link.url \in a.seen_urls THEN a
    ELSE IF link.is_attachment
    THEN [a EXCEPT !.seen_urls = @ \cup {link.url},
                   !.attachments = Append(@, link.url),
                   !.pc = IF Len(a.attachments) + 1 >= MaxAttachments
                          THEN "done" ELSE "loop"]
    ELSE a

\* one pass of the loop
VisitAnchor ==
    /\ attach.pc = "loop"
    /\ attach.pos < Len(attach.page)
    /\ attach' = [VisitLink(attach, attach.page[attach.pos + 1]) EXCEPT !.pos = @ + 1]
    /\ UNCHANGED <<storeVars, fetchVars, subsVars, notifyVars, detail, get, bstore,
                   fail_run, runner, notifier, prog>>

\* the loop is over: return attachments, earliest_pdf_date
ReturnAttachments ==
    /\ attach.pc = "loop"
    /\ attach.pos = Len(attach.page)
    /\ attach' = [attach EXCEPT !.pc = "done"]
    /\ UNCHANGED <<storeVars, fetchVars, subsVars, notifyVars, detail, get, bstore,
                   fail_run, runner, notifier, prog>>

InitAttach ==
    /\ InitStoreVars /\ kind = "subscribers" /\ upd = [w \in Writers |-> "k1"]
    /\ InitFetchVars /\ InitSubsVars /\ InitNotifyVars
    /\ detail = NoDetail /\ get = NoGet /\ bstore = NoBlobStore
    /\ fail_run = NoFailRun /\ runner = [t \in Runners |-> IdleRunner]
    /\ notifier = NoNotifier /\ prog = NoProg
    /\ attach \in {[NoAttach EXCEPT !.pc = "loop", !.page = page] : page \in AttachPages}

NextAttach == VisitAnchor \/ ReturnAttachments

SpecAttach == InitAttach /\ [][NextAttach]_vars

(***************************************************************************)
(* notify calls with more new announcements than one message lists.        *)
(***************************************************************************)
\* links of the announcements of a large batch
BulkLinks ==
    <<"b01", "b02", "b03", "b04", "b05", "b06", "b07", "b08", "b09",
      "b10", "b11", "b12", "b13", "b14", "b15", "b16", "b17", "b18",
      "b19", "b20", "b21", "b22", "b23", "b24", "b25", "b26", "b27",
      "b28", "b29", "b30", "b31", "b32", "b33", "b34", "b35", "b36",
      "b37", "b38", "b39", "b40", "b41", "b42", "b43", "b44", "b45",
      "b46", "b47", "b48", "b49", "b50", "b51">>

\* new_announcements of a run that found n new announcements of school s1
BulkItems(n) ==
    [i \in 1..n |->
        [school_id |-> "s1", link |-> BulkLinks[i], title |-> 1, date |-> DateMin,
         first_seen |-> 1, last_seen |-> 1, id |-> i]]

InitBulk == InitNotify /\ email_enabled

NextBulk ==
    \E n \in {BodyLimit - 1, BodyLimit, BodyLimit + 1} : \E fault \in Faults :
        NotifyCall(BulkItems(n), fault)

SpecBulk == InitBulk /\ [][NextBulk]_vars

(***************************************************************************)
(* The progress that get_progress reports, along the steps of one          *)
(* fetch_and_save call at a time on a service instance.                    *)
(***************************************************************************)
\* fetch_and_save calls of one history
MaxProgressRuns == 2

\* lines 669-671: schools = get_active_schools();
\* self._set_progress("running", len(schools), 0, None)
BeginFetch(config) ==
    /\ runs < MaxProgressRuns
    /\ prog.pc = "none"
    /\ prog' = [pc |-> "scraping", schools |-> config, idx |-> 0,
                scraped_items |-> <<>>, status |-> "running",
                total |-> Len(config), current |-> 0]
    /\ runs' = runs + 1
    /\ UNCHANGED <<storeVars, subsVars, notifyVars, detail, get, bstore, fail_run,
                   runner, notifier, attach, store, now, existing, scraped,
                   newly_seen, same_batch, ever_assigned>>

\* lines 673-676, one pass: self._set_progress("running", len(schools),
\* idx - 1, school.name); scraped_items.extend(school_items), the school
\* having one announcement (found) or none
ScrapeSchool(found) ==
    /\ prog.pc = "scraping"
    /\ prog.idx < Len(prog.schools)
    /\ prog' = [prog EXCEPT !.idx = @ + 1, !.status = "running",
                            !.total = Len(prog.schools), !.current = prog.idx,
                            !.scraped_items =
                                IF found
                                THEN Append(@, Detail(prog.schools[prog.idx + 1],
                                                      "l1", 1, DateMin))
                                ELSE @]
    /\ UNCHANGED <<storeVars, fetchVars, subsVars, notifyVars, detail, get, bstore,
                   fail_run, runner, notifier, attach>>

\* lines 679-739: load, merge, prune, ids, save, cache,
\* self._set_progress("idle", 0, 0, None)
SaveAndSetIdle ==
    /\ prog.pc = "scraping"
    /\ prog.idx = Len(prog.schools)
    /\ \E loaded_anns \in {LoadAnnouncements(store)} :
       \E r \in {Reconcile(loaded_anns, prog.scraped_items, now + 1)} :
           /\ now' = now + 1 /\ existing' = loaded_anns
           /\ scraped' = prog.scraped_items /\ newly_seen' = r.newly_seen
           /\ store' = SaveAnnouncements(r.pruned)
           /\ ever_assigned' = ever_assigned \cup IdKeys(r.pruned)
    /\ same_batch' = (runs > 1 /\ prog.scraped_items = scraped)
    /\ prog' = [prog EXCEPT !.pc = "notifying", !.status = "idle",
                            !.total = 0, !.current = 0]
    /\ UNCHANGED <<storeVars, subsVars, notifyVars, detail, get, bstore, fail_run,
                   runner, notifier, attach, runs>>

\* lines 741-756: notify, _last_fetch_stats, return len(pruned)
NotifyAndReturn ==
    /\ prog.pc = "notifying"
    /\ \E n \in {Notify(ListActive(subs_doc), newly_seen, sent_docs, NoFault)} :
           /\ sent_docs' = n.sent_docs /\ outbox' = outbox \o n.mails
           /\ store_faulted' = (store_faulted \/ n.store_fault)
           /\ notify_call' = CallRecord(newly_seen, n, FALSE)
    /\ prog' = [prog EXCEPT !.pc = "none"]
    /\ UNCHANGED <<storeVars, fetchVars, subsVars, detail, get, bstore, fail_run,
                   runner, notifier, attach, email_enabled, dedupe_backend, calls>>

InitProgress == InitFetch

NextProgress ==
    \/ \E config \in Configs : BeginFetch(config)
    \/ \E found \in BOOLEAN : ScrapeSchool(found)
    \/ SaveAndSetIdle
    \/ NotifyAndReturn

SpecProgress == InitProgress /\ [][NextProgress]_vars

(***************************************************************************)
(* Claims about the document store.                                        *)
(***************************************************************************)

\* C1: a save_with_generation on the remote backend whose generation differs
\* from the object's current generation fails with an error its caller sees,
\* and is not applied, not even by the store's own retries.
C1_StaleSaveFailsUnapplied ==
    \A w \in Writers :
        (pc[w] = "done" /\ stale_call[w]) =>
            (outcome[w] = "raised" /\ ~applied[w])

\* C2: once two concurrent read-modify-write cycles on one document have both
\* returned (and nothing else wrote the document), the document holds both
\* updates.
C2_NoLostUpdate ==
    ((\A w \in Writers : pc[w] = "done") /\ ensured = 0) =>
        (\A w \in Writers : upd[w] \in blob.data)

\* C3: a cycle all of whose conditional saves conflicted was tried
\* CycleRetries (8) times, then failed to its caller, and never modified the
\* document.
C3_PermanentConflictSurfaces ==
    \A w \in Writers :
        (pc[w] = "done" /\ uploads[w] > 0 /\ rejected[w] = uploads[w]) =>
            (outcome[w] = "raised" /\ attempt[w] + 1 = CycleRetries /\ ~applied[w])

(***************************************************************************)
(* Claims about fetch_and_save.                                            *)
(***************************************************************************)
\* what load_announcements gives for the saved snapshot
Saved == LoadAnnouncements(store)
ItemsOf(anns) == {anns[i] : i \in DOMAIN anns}
KeysOf(anns) == {KeyOf(anns[i]) : i \in DOMAIN anns}
\* an announcement without its last_seen
WithoutLastSeen(ann) == [f \in DOMAIN ann \ {"last_seen"} |-> ann[f]]
\* a stored announcement that the latest run did not scrape
Unscraped(ann) == KeyOf(ann) \notin KeysOf(scraped)

\* C4: an id that a snapshot ever gave to the announcement of one key is never
\* given to an announcement of another key, also after the first was pruned.
C4_IdNeverReused ==
    \A p, q \in ever_assigned : p[1] = q[1] => p[2] = q[2]

\* C5: an announcement that was stored before a run and is scraped again in
\* the run is in the saved snapshot with the id and first_seen it had; in
\* every run.
C5_RescrapedKeepsIdAndFirstSeen ==
    \A a \in ItemsOf(existing) :
        ~Unscraped(a) =>
            /\ \E b \in ItemsOf(Saved) : KeyOf(b) = KeyOf(a)
            /\ \A b \in ItemsOf(Saved) :
                   KeyOf(b) = KeyOf(a) => (b.id = a.id /\ b.first_seen = a.first_seen)

\* C5 witness: a run scrapes again, with another title, an announcement it
\* had stored more than 180 days before.
C5_Witness ==
    \E a \in ItemsOf(existing) : \E s \in ItemsOf(scraped) :
        /\ KeyOf(s) = KeyOf(a)
        /\ s.title # a.title
        /\ a.last_seen < now - STALE_AFTER

C7_SameBatchSameSnapshot ==
    (same_batch /\ scraped # <<>>) =>
        /\ newly_seen = <<>>
        /\ {WithoutLastSeen(b) : b \in ItemsOf(Saved)}
               = {WithoutLastSeen(a) : a \in ItemsOf(existing)}

\* C7 as amended: a run that scrapes the same batch as the run before it has
\* no new items and saves the announcements of the first snapshot, equal but
\* for last_seen, except those not in the batch whose last_seen is by then
\* older than 180 days.
C7_SameBatchSameButStale ==
    same_batch =>
        /\ newly_seen = <<>>
        /\ {WithoutLastSeen(b) : b \in ItemsOf(Saved)}
               = {WithoutLastSeen(a) :
                    a \in {x \in ItemsOf(existing) :
                              ~(Unscraped(x) /\ x.last_seen < now - STALE_AFTER)}}

\* C7 witness: the second run of a non-empty batch, in which an announcement
\* that is not in the batch has become stale and is dropped.
C7_Witness ==
    /\ same_batch
    /\ scraped # <<>>
    /\ now > 0
    /\ \E a \in ItemsOf(existing) : Unscraped(a) /\ KeyOf(a) \notin KeysOf(store)

\* C8: the merge of a scraped item with the stored item of its key has every
\* field of the scraped item from the scrape, id and first_seen from the
\* stored item, and last_seen = the time of the run.
C8_MergePrecedence ==
    \A a \in ItemsOf(existing) : \A s \in ItemsOf(scraped) :
        KeyOf(s) = KeyOf(a) =>
            /\ \E b \in ItemsOf(Saved) : KeyOf(b) = KeyOf(a)
            /\ \A b \in ItemsOf(Saved) :
                   KeyOf(b) = KeyOf(a) =>
                       /\ \A f \in DOMAIN s : b[f] = s[f]
                       /\ b.id = a.id
                       /\ b.first_seen = a.first_seen
                       /\ b.last_seen = now

\* C8 witness: a stored announcement, one whose id is 2, is scraped with
\* another title on a later day than the one it was first seen on.
C8_Witness ==
    \E a \in ItemsOf(existing) : \E s \in ItemsOf(scraped) :
        /\ KeyOf(s) = KeyOf(a)
        /\ s.title # a.title
        /\ a.first_seen < now
        /\ a.id = 2

\* C9: a stored announcement that the run did not scrape is dropped when its
\* last_seen is more than 180 days before the run, and kept when it is less
\* than 180 days before the run.
C9_StaleDroppedFreshKept ==
    \A a \in ItemsOf(existing) :
        Unscraped(a) =>
            /\ a.last_seen < now - STALE_AFTER => KeyOf(a) \notin KeysOf(store)
            /\ a.last_seen > now - STALE_AFTER => KeyOf(a) \in KeysOf(store)

\* C9 witness: an announcement last seen 181 days before the run is dropped
\* by it.
C9_Witness ==
    \E a \in ItemsOf(existing) :
        /\ Unscraped(a)
        /\ a.last_seen = now - (STALE_AFTER + 1)
        /\ KeyOf(a) \notin KeysOf(store)

\* C10: every announcement a run loaded is in the snapshot it saves, unless
\* its last_seen is older than 180 days at the time of the run.
C10_OnlyStaleDeleted ==
    \A a \in ItemsOf(existing) :
        KeyOf(a) \in KeysOf(store) \/ a.last_seen < now - STALE_AFTER

\* C10 witness: of two stored announcements that a run does not scrape, the
\* stale one is deleted and the other is kept.
C10_Witness ==
    \E a, b \in ItemsOf(existing) :
        /\ Unscraped(a) /\ Unscraped(b)
        /\ KeyOf(a) \notin KeysOf(store)
        /\ KeyOf(b) \in KeysOf(store)

\* C11: a stored announcement that the run did not scrape and that is not
\* stale is in the saved snapshot with every field unchanged (id, first_seen
\* and last_seen included).
C11_UnscrapedCarriedUnchanged ==
    \A a \in ItemsOf(existing) :
        (Unscraped(a) /\ ~(a.last_seen < now - STALE_AFTER)) =>
            a \in ItemsOf(Saved)

\* C11 witness: a run that scraped another announcement left a stored one,
\* last seen in an earlier run, in the snapshot as it was.
C11_Witness ==
    \E a \in ItemsOf(existing) :
        /\ Unscraped(a)
        /\ scraped # <<>>
        /\ a.last_seen < now
        /\ a.id > 0
        /\ a \in ItemsOf(Saved)

\* C12: the saved snapshot is ordered by published date descending and, among
\* equal dates, by title ascending.
C12_DateDescTitleAsc ==
    \A i, j \in DOMAIN Saved :
        i < j => \/ Saved[i].date > Saved[j].date
                 \/ /\ Saved[i].date = Saved[j].date
                    /\ Saved[i].title <= Saved[j].title

\* the keys of the scraped items that the run reported as new
NewlySeenKeys == KeysOf(newly_seen)

\* C13: a scraped item is in the new-items delta of a run exactly when no
\* stored announcement had its (school_id, link) when the run loaded the
\* store, and every item of the delta has first_seen = last_seen = the time
\* of the run.
C13_NewIffNotStored ==
    /\ \A i \in DOMAIN scraped :
           KeyOf(scraped[i]) \in NewlySeenKeys
               <=> KeyOf(scraped[i]) \notin KeysOf(existing)
    /\ NewlySeenKeys \subseteq KeysOf(scraped)
    /\ \A i \in DOMAIN newly_seen :
           newly_seen[i].first_seen = now /\ newly_seen[i].last_seen = now

\* C13 witness: a run scraped one announcement that was stored and one that
\* was not, and only the second is in the delta.
C13_Witness ==
    \E i, j \in DOMAIN scraped :
        /\ KeyOf(scraped[i]) \in KeysOf(existing)
        /\ KeyOf(scraped[i]) \notin NewlySeenKeys
        /\ KeyOf(scraped[j]) \notin KeysOf(existing)
        /\ KeyOf(scraped[j]) \in NewlySeenKeys
        /\ \E k \in DOMAIN newly_seen :
               newly_seen[k].first_seen = now /\ newly_seen[k].last_seen = now

(***************************************************************************)
(* Claims about notifications and subscribers.                             *)
(***************************************************************************)
\* the keys listed in a message
KeysIn(mail) == {mail.keys[i] : i \in DOMAIN mail.keys}
\* the active subscribers as list_active returns them
Active == ItemsOf(ListActive(subs_doc))
\* the announcement is within the subscriber's scope
InScope(sub, ann) == FilterBySubscriber(sub, <<ann>>) # <<>>

\* no subscriber has two messages that list the same announcement key
AtMostOncePerKey ==
    \A i, j \in DOMAIN outbox :
        (i # j /\ outbox[i].to = outbox[j].to) =>
            KeysIn(outbox[i]) \cap KeysIn(outbox[j]) = {}

\* a notify call with the items of the call before it, in which nothing
\* failed, sends nothing
RepeatSendsNothing ==
    (calls >= 2 /\ notify_call.items = notify_call.prev_items
                /\ notify_call.prev_clean) =>
        notify_call.mails = <<>>

\* no message lists an announcement of a school outside the non-empty scope
\* of its recipient
OnlyInScope ==
    \A i \in DOMAIN outbox : \A sub \in ItemsOf(subs_doc) :
        (sub.email = outbox[i].to /\ ~sub.school_ids.none
                                  /\ sub.school_ids.ids # <<>>) =>
            \A key \in KeysIn(outbox[i]) :
                \E n \in DOMAIN sub.school_ids.ids :
                    sub.school_ids.ids[n] = key[1]

C15_MissedNotificationCaughtLater ==
    (runs >= 1 /\ ~store_faulted /\ ~notify_call.fault_hit /\ ~notify_call.stopped) =>
        \A sub \in Active : \A a \in ItemsOf(Saved) :
            InScope(sub, a) => AnnouncementKey(a) \in sent_docs[sub.email]

\* C16: a notify call with something new processes every subscriber of the
\* list, whatever failed for one of them.
C16_FailureDoesNotStopOthers ==
    notify_call.items # <<>> =>
        /\ ~notify_call.raised
        /\ notify_call.processed =
               [i \in DOMAIN ListActive(subs_doc) |-> ListActive(subs_doc)[i].email]

\* C17: no step of the writers of a sent-set document removes a key from it.
C17_SentSetOnlyGrows ==
    [][kind = "sent" => blob.data \subseteq blob'.data]_vars

\* C18: without any _ensure_storage save, the email of every subscribe cycle
\* that has returned has a record in the subscribers document.
C18_SubscribedStaysRecorded ==
    \A w \in Writers :
        (kind = "subscribers" /\ ensured = 0 /\ outcome[w] = "returned") =>
            upd[w] \in blob.data

\* the email is one that _EMAIL_RE does not accept once stripped and lowered
InvalidEmail(email) ==
    LowerStr(StripStr(email)) = "" \/ ~MatchesEmailRe(LowerStr(StripStr(email)))

\* C19: no two records of the subscribers document have the same lowercased
\* email, and a subscribe with an email that had a record (in any letter
\* case) leaves the number of records as it was, sets that record active with
\* the given scope and leaves the others alone.
C19_OneRecordPerEmail ==
    /\ \A i, j \in DOMAIN subs_doc :
           i # j => LowerStr(subs_doc[i].email) # LowerStr(subs_doc[j].email)
    /\ (sub_call.op = "subscribe" /\ ~sub_call.raised) =>
           \A i \in DOMAIN sub_call.before :
               /\ Len(subs_doc) >= Len(sub_call.before)
               /\ IF LowerStr(sub_call.before[i].email)
                        = LowerStr(StripStr(sub_call.email))
                  THEN /\ Len(subs_doc) = Len(sub_call.before)
                       /\ subs_doc[i].active
                       /\ subs_doc[i].email = sub_call.before[i].email
                       /\ subs_doc[i].school_ids
                              = NormalizeSchoolIds(sub_call.school_ids)
                  ELSE subs_doc[i] = sub_call.before[i]

\* C19 witness: a@x.io had unsubscribed; subscribe("A@X.io") made its record
\* active again and added none.
C19_Witness ==
    /\ sub_call.op = "subscribe" /\ sub_call.email = "A@X.io"
    /\ Len(subs_doc) = Len(sub_call.before)
    /\ \E i \in DOMAIN subs_doc :
           /\ sub_call.before[i].email = "a@x.io"
           /\ ~sub_call.before[i].active
           /\ subs_doc[i].active

\* C20: a subscribe or unsubscribe call with an invalid email raises, starts
\* no load-modify-save cycle and leaves the subscribers document as it was;
\* no record of the document has an invalid email.
C20_InvalidEmailRejected ==
    /\ (sub_call.op # "none" /\ InvalidEmail(sub_call.email)) =>
           /\ sub_call.raised
           /\ ~sub_call.cycle
           /\ subs_doc = sub_call.before
    /\ \A i \in DOMAIN subs_doc : ~InvalidEmail(subs_doc[i].email)

\* C20 witness: an unsubscribe with an email that has a space in it raised
\* and the document, which has a record, is as before.
C20_Witness ==
    /\ sub_call.op = "unsubscribe" /\ sub_call.email = "a b@x.io"
    /\ sub_call.raised
    /\ subs_doc # <<>> /\ subs_doc = sub_call.before

\* C28: a run that found the store empty and scraped n items saves exactly
\* those n announcements, with the ids 1..n, and all of them are in the
\* new-items delta.
C28_EmptyStoreIdsFromOne ==
    (runs >= 1 /\ existing = <<>>) =>
        /\ Len(Saved) = Len(scraped)
        /\ KeysOf(Saved) = KeysOf(scraped)
        /\ {Saved[i].id : i \in DOMAIN Saved} = 1..Len(scraped)
        /\ Len(newly_seen) = Len(scraped)
        /\ KeysOf(newly_seen) = KeysOf(scraped)

\* C28 witness: the first run scraped two items and saved them as 1 and 2.
C28_Witness ==
    /\ runs = 1 /\ existing = <<>> /\ Len(scraped) = 2
    /\ {Saved[i].id : i \in DOMAIN Saved} = {1, 2}
    /\ Len(newly_seen) = 2

\* the messages of the latest notify call that went to the email
MailsTo(email) ==
    {i \in DOMAIN notify_call.mails : notify_call.mails[i].to = email}

\* C30: every key that a notify call adds to a subscriber's sent-set is
\* listed in a message that the call sent to that subscriber, and the
\* returned count is the number of messages sent; a subscriber whose send
\* raised has its sent-set as before the call.
C30_RecordedOnlyAfterSent ==
    /\ \A e \in Emails :
           \A key \in sent_docs[e] \ notify_call.before[e] :
               \E i \in MailsTo(e) : key \in KeysIn(notify_call.mails[i])
    /\ notify_call.sent = Len(notify_call.mails)
    /\ \A n \in DOMAIN notify_call.send_failed :
           /\ sent_docs[notify_call.send_failed[n]]
                  = notify_call.before[notify_call.send_failed[n]]
           /\ MailsTo(notify_call.send_failed[n]) = {}

\* the dates that the page's meta tags hold, in the order of the three tags
ValidMetaDates ==
    SelectSeq(<<detail.published_time, detail.date_published, detail.time_datetime>>,
              LAMBDA tag : HasContent(tag) /\ ParseDate(tag[1]) # DateMin)

\* C27: the date of a scraped page is the first valid meta date
\* (article:published_time, itemprop datePublished, <time datetime>); without
\* a valid meta date, the earliest PDF date; without that, the date of the
\* text heuristic; without that, the unknown sentinel.
C27_DatePriority ==
    detail.pc = "done" =>
        detail.published =
            IF ValidMetaDates # <<>> THEN ParseDate(ValidMetaDates[1][1])
            ELSE IF detail.pdf_dates # {} THEN EarliestPdfDate(detail.pdf_dates)[1]
            ELSE IF detail.text_date # <<>> THEN detail.text_date[1]
            ELSE DateMin

\* C22: a request answered with 429 or 503 is followed by a request to the
\* same variant with a retry count one higher, after a sleep of
\* 2^retry_count base delays; there are at most 3 such retries, and a 429 or
\* 503 on the third retry is the last request for the URL.
C22_BusyRetriesSameVariant ==
    /\ get.retry_count <= MaxRetry
    /\ (get.prev.resp = "busy" /\ get.prev.retry_count < MaxRetry) =>
           /\ get.last.idx = get.prev.idx
           /\ get.last.retry_count = get.prev.retry_count + 1
           /\ get.last.slept = 2 ^ get.prev.retry_count
    /\ ~(get.prev.resp = "busy" /\ get.prev.retry_count = MaxRetry)

\* C23: a page fetch has failed only when every variant has been requested
\* and failed and the Playwright fallback has been tried and gave nothing.
C23_FailedOnlyAfterAllStrategies ==
    get.pc = "failed" =>
        (get.errors = Variants /\ get.fallback \in {"empty", "raised"})

\* C26: with the bucket configured, a load made without a client or hit by a
\* service error returns the local document with generation 0, and a save
\* made without a client or whose uploads all fail on a service error leaves
\* the document in the local file (the local file being readable and
\* writable).
C26_FallsBackToLocalFile ==
    LET op == bstore.op
    IN  /\ (op.name = "load" /\ (~op.client \/ op.remote_fault) /\ ~op.local_fault) =>
               /\ op.generation = 0
               /\ op.data = IF bstore.local.exists THEN bstore.local.data
                            ELSE "default"
        /\ (op.name = "save" /\ (~op.client \/ op.errs = SaveRetries)
              /\ ~op.local_fault) =>
               (bstore.local.exists /\ bstore.local.data = op.arg)

\* the source s is configured in the latest run
Configured(s) == \E i \in DOMAIN fail_run.config : fail_run.config[i] = s
\* something failed in a configured source of the latest run
SomeFailure ==
    \E s \in {"s1", "s2"} :
        /\ Configured(s)
        /\ (fail_run.web[s].listing # "ok"
              \/ \E l \in {"l1", "l2"} : fail_run.web[s].detail[l] # "ok")

\* C24: a run in which a listing or a detail URL failed does not fail: the
\* scraped items are those of every URL that did not fail in a source whose
\* listing did not fail, and the snapshot written is the reconciliation of
\* the loaded snapshot with them.
C24_FailuresIsolated ==
    (fail_run.ran /\ SomeFailure) =>
        /\ ~fail_run.raised
        /\ \A s \in {"s1", "s2"} : \A l \in {"l1", "l2"} :
               (<<s, l>> \in KeysOf(scraped)) <=>
                   (Configured(s) /\ fail_run.web[s].listing = "ok"
                       /\ fail_run.web[s].detail[l] = "ok")
        /\ \E r \in {Reconcile(existing, scraped, now)} :
               /\ fail_run.count = Len(r.pruned)
               /\ fail_run.write # "none" => store = SaveAnnouncements(r.pruned)

C24_Witness ==
    /\ fail_run.ran /\ fail_run.write # "none"
    /\ fail_run.config = <<"s1", "s2">>
    /\ fail_run.web["s1"].listing = "raised"
    /\ fail_run.web["s2"].listing = "ok"
    /\ fail_run.web["s2"].detail["l1"] = "raised"
    /\ <<"s2", "l2">> \in KeysOf(LoadAnnouncements(store))

\* C25: a run fails exactly when no source is configured or the snapshot was
\* written neither to the bucket nor to the local file.
C25_FailsExactlyWhenFatal ==
    fail_run.ran =>
        (fail_run.raised <=> (fail_run.config = <<>> \/ fail_run.write = "none"))

\* C21: no two fetch_and_save calls are both between the load of the
\* snapshot and its save.
C21_SingleWriter ==
    \A t, u \in Runners :
        (runner[t].pc = "loaded" /\ runner[u].pc = "loaded") => t = u

C35_IdsPositiveDistinct ==
    /\ \A i \in DOMAIN store : store[i].id \in Nat \ {0}
    /\ \A i, j \in DOMAIN store : i # j => store[i].id # store[j].id

\* C35 witness: a snapshot of two announcements, one new in the run and
\* numbered by it, the other stored before with an id greater than 1.
C35_Witness ==
    /\ Len(store) = 2 /\ Len(newly_seen) = 1
    /\ \E a \in ItemsOf(existing) : a.id > 1 /\ KeyOf(a) \in KeysOf(LoadAnnouncements(store))

\* C36: every scraped item that has a school_id and a link is in the snapshot
\* that its run saved, whatever the last_seen of the stored announcement of
\* its key.
C36_ScrapedNeverPruned ==
    \A i \in DOMAIN scraped :
        HasKey(scraped[i]) =>
            \E j \in DOMAIN store :
                /\ KeyOf(store[j]) = KeyOf(scraped[i])
                /\ store[j].last_seen = now

\* C36 witness: a run scrapes an announcement whose stored last_seen was more
\* than 180 days old.
C36_Witness ==
    \E a \in ItemsOf(existing) :
        /\ KeyOf(a) \in KeysOf(scraped)
        /\ IsStale(a, now)
        /\ KeyOf(a) \in KeysOf(LoadAnnouncements(store))

\* C39: in every saved snapshot first_seen <= last_seen holds for every
\* announcement that has both.
C39_FirstSeenBeforeLastSeen ==
    \A i \in DOMAIN store :
        ({"first_seen", "last_seen"} \subseteq DOMAIN store[i]) =>
            store[i].first_seen <= store[i].last_seen

\* C39 witness: a snapshot with an announcement seen again on a later day than
\* the one it was first seen on, and one seen in the latest run only.
C39_Witness ==
    /\ \E i \in DOMAIN store : store[i].first_seen < store[i].last_seen
    /\ \E i \in DOMAIN store : store[i].first_seen = now

\* C31: every HTTP request of _get comes after a pacing step of its own:
\* _smart_delay has run since the request before it.
C31_PacedBeforeEveryRequest ==
    /\ get.last.resp # "none" => get.last.paced
    /\ get.requests <= get.request_count

\* C37: a call of _get makes at most 16 requests (4 variants at each of 4
\* backoff levels) and every request moves it on: to the next variant, to the
\* next level, or out of the call.
C37_GetRequestsBounded ==
    /\ get.requests <= 16
    /\ get.pc = "get" => get.requests <= 4 * get.retry_count + get.idx - 1
    /\ get.pc = "get" => (get.idx \in Variants /\ get.retry_count \in 0..3)

\* C37 witness: a call that made all 16 requests and raised.
C37_Witness == get.requests = 16 /\ get.pc = "fallback"

\* the place of the first attachment anchor of a URL in the page
FirstPos(u) ==
    CHOOSE p \in DOMAIN attach.page :
        /\ attach.page[p].url = u /\ attach.page[p].is_attachment
        /\ \A q \in 1..(p - 1) :
               ~(attach.page[q].url = u /\ attach.page[q].is_attachment)
\* the URLs that the page has an attachment anchor for
AttachmentUrls ==
    {attach.page[p].url : p \in {q \in DOMAIN attach.page : attach.page[q].is_attachment}}

\* C32: _extract_attachments returns at most 10 attachments with pairwise
\* distinct URLs, in the order in which their anchors first appear in the
\* page; an attachment of the page is left out only when 10 came before it.
C32_AtMostTenDistinctInOrder ==
    attach.pc = "done" =>
        LET atts == attach.attachments
        IN  /\ Len(atts) <= 10
            /\ \A i \in DOMAIN atts : atts[i] \in AttachmentUrls
            /\ \A i, j \in DOMAIN atts :
                   i < j => (atts[i] # atts[j] /\ FirstPos(atts[i]) < FirstPos(atts[j]))
            /\ \A u \in AttachmentUrls :
                   (\A i \in DOMAIN atts : atts[i] # u) =>
                       (Len(atts) = 10 /\ FirstPos(atts[10]) < FirstPos(u))

\* C32 witness: a page with a repeated URL and more than 10 attachments, of
\* which 10 are returned.
C32_Witness ==
    /\ attach.pc = "done" /\ Len(attach.attachments) = 10
    /\ Cardinality(AttachmentUrls) > 10
    /\ \E p, q \in DOMAIN attach.page :
           p < q /\ q <= attach.pos /\ attach.page[p].url = attach.page[q].url
               /\ attach.page[q].is_attachment

\* C33: with the mail service enabled, every key that a notify call adds to
\* a subscriber's sent-set is listed in the body of a message that the call
\* sent to that subscriber, for any number of new items.
C33_RecordedKeysWereListed ==
    \A e \in Emails :
        \A key \in sent_docs[e] \ notify_call.before[e] :
            \E i \in DOMAIN notify_call.mails :
                /\ notify_call.mails[i].to = e
                /\ key \in KeysIn(notify_call.mails[i])

\* C34: after a run that returned the count n the stored document holds the
\* n announcements of the merged and pruned list, and get_all_announcements
\* returns that list, from the cache or from the store.
C34_ReturnedCountIsPersisted ==
    (fail_run.ran /\ ~fail_run.raised) =>
        \E r \in {Reconcile(existing, scraped, now)} :
            /\ fail_run.count = Len(r.pruned)
            /\ LoadAnnouncements(store) = r.pruned
            /\ \A fresh \in BOOLEAN :
                   GetAllAnnouncements(fail_run.memory_cache, store, fresh) = r.pruned

\* C38: the reported status is "running" exactly while a fetch_and_save call
\* is in progress and "idle" otherwise, and 0 <= current <= total while it
\* is running.
C38_RunningWhileInProgress ==
    /\ prog.status \in {"running", "idle"}
    /\ prog.status = "running" <=> prog.pc # "none"
    /\ prog.status = "running" => (0 <= prog.current /\ prog.current <= prog.total)

====
